---- MODULE Spec2Model ----
(***************************************************************************)
(* Model of the URL shortener service (utils/urlShortener.ts): the         *)
(* shortCode -> ShortenedUrl map, its localStorage snapshot, the clock,    *)
(* and one action per public operation of UrlShortenerService.             *)
(*                                                                         *)
(* Strings that the code inspects character by character (short codes,     *)
(* time-zone names) are sequences of one-character strings.  An optional   *)
(* value (a property that may be undefined, a nullable return value) is    *)
(* None or Some(v); an object in memory has all its properties, the        *)
(* undefined ones with value None, and JSON text has only the defined      *)
(* ones.  Times are milliseconds since the epoch.                          *)
(***************************************************************************)
EXTENDS Integers, Sequences, FiniteSets, TLC

VARIABLES
  now,        \* the wall clock, in ms (new Date() / Date.now())
  ticks,      \* how many times the clock advanced (bounds the run)
  timeZone,   \* Intl.DateTimeFormat().resolvedOptions().timeZone, split at "/"
  failuresLeft, \* how many more times localStorage.setItem may throw in this run
  urls,       \* UrlShortenerService.urls: the Map, as its entries in insertion order
  storage,    \* localStorage value under STORAGE_KEY: None or Some(parsed JSON)
  call,       \* the call a caller is handling the result of: operation, arguments,
              \* return value, setItem outcomes; Idle between two calls
  gen,        \* generateShortCode seen step by step: where its do/while loop
              \* stands, and its local variable result
  other,      \* the urls Map of the service instance of a second browser tab
              \* on the same localStorage
  page,       \* the urls state of the UrlShortener page: the records it lists
  logger,     \* the Logger singleton: its logs array
  form,       \* the urls state of UrlShortenerForm: its URL entries
  redirect    \* the RedirectHandler page of a visit, and where the browser is

vars ==
  <<now, ticks, timeZone, failuresLeft, urls, storage, call, gen, other, page,
    logger, form, redirect>>

----------------------------------------------------------------------------
(* Bounds of the model *)

MaxHeld == 3      \* records plus recorded clicks held by the map at once
MaxTicks == 2     \* clock advances in one run
MaxWriteFailures == 1  \* throwing setItem calls in one run
MaxFreeDraws == 3  \* positions of a code at which the draws of the loop vary
MaxSeqLen == 3    \* clicks of a record, for every order of their sources

----------------------------------------------------------------------------
(* Optional values *)

None == <<>>
Some(v) == <<v>>
IsSome(o) == o # <<>>
Val(o) == o[1]

(* Property read on an object: undefined when the key is absent *)
Field(obj, f) == IF f \in DOMAIN obj THEN obj[f] ELSE None

----------------------------------------------------------------------------
(* Program constants *)

STORAGE_KEY == "url_shortener_data"
DEFAULT_VALIDITY_MINUTES == 30
SHORTCODE_LENGTH == 6
MsPerMinute == 60 * 1000

chars ==
  << "a","b","c","d","e","f","g","h","i","j","k","l","m",
     "n","o","p","q","r","s","t","u","v","w","x","y","z",
     "A","B","C","D","E","F","G","H","I","J","K","L","M",
     "N","O","P","Q","R","S","T","U","V","W","X","Y","Z",
     "0","1","2","3","4","5","6","7","8","9" >>

(* chars.charAt(i), i counted from 0 *)
CharAt(i) == chars[i + 1]

ErrInvalidUrl == "Invalid URL format. Please provide a valid HTTP or HTTPS URL."
ErrInvalidValidity == "Validity must be a positive integer representing minutes."
ErrInvalidShortCode == "Invalid shortcode. Must be 3-20 alphanumeric characters."
ErrDuplicateShortCode == "Shortcode already exists. Please choose a different one."
ErrNotFound == "Short URL not found."
ErrExpired == "Short URL has expired."
ErrStatsNotFound == "URL not found."

----------------------------------------------------------------------------
(* Dates: toISOString() and new Date(string) are inverse on ms timestamps *)

ToISOString(ms) == [iso |-> ms]
DateParse(s) == s.iso

----------------------------------------------------------------------------
(* Numbers: the rational n/d with d > 0 *)

Num(n) == [n |-> n, d |-> 1]
Frac(n, d) == [n |-> n, d |-> d]
IsZero(x) == x.n = 0
IsInteger(x) == x.n % x.d = 0
LeqZero(x) == x.n <= 0
IntOf(x) == x.n \div x.d

----------------------------------------------------------------------------
(* The JavaScript Map, as the sequence of its [key, value] entries *)

MapKeys(m) == { m[i][1] : i \in 1..Len(m) }
MapHas(m, k) == k \in MapKeys(m)
MapIndex(m, k) == CHOOSE i \in 1..Len(m) : m[i][1] = k
MapGet(m, k) == m[MapIndex(m, k)][2]
MapSet(m, k, v) ==
  IF MapHas(m, k)
    THEN [m EXCEPT ![MapIndex(m, k)] = <<k, v>>]
    ELSE Append(m, <<k, v>>)
MapValues(m) == [i \in 1..Len(m) |-> m[i][2]]

(* The number of records and clicks the map holds *)
RECURSIVE Held(_)
Held(m) ==
  IF m = <<>> THEN 0 ELSE 1 + Len(Head(m)[2].clicks) + Held(Tail(m))

(* new Map(entries): the entries are set one after the other *)
RECURSIVE MapFromEntries(_)
MapFromEntries(es) ==
  IF es = <<>> THEN <<>>
  ELSE LET front == MapFromEntries(SubSeq(es, 1, Len(es) - 1))
           last == es[Len(es)]
       IN MapSet(front, last[1], last[2])

----------------------------------------------------------------------------
(* Inputs and environment *)

Rep(c, n) == [i \in 1..n |-> c]

(* The URL strings callers pass, and what new URL(url).protocol gives for   *)
(* each: None when the URL constructor throws                               *)
UrlProtocol(url) ==
  CASE url = "https://example.com/x" -> Some("https:")
    [] url = "http://a.io/y" -> Some("http:")
    [] url = "ftp://bad" -> Some("ftp:")
    [] OTHER -> None

(* The requests callers make: two well-formed requests, and requests that   *)
(* differ from a well-formed one in one field                               *)
DefaultRequest ==
  [ originalUrl |-> "https://example.com/x", validityMinutes |-> None,
    customShortCode |-> None ]
CustomRequest ==
  [ originalUrl |-> "http://a.io/y", validityMinutes |-> Some(Num(1)),
    customShortCode |-> Some(<<"a","b","c">>) ]

(* A request for a custom code that generateShortCode can draw as well *)
BriefRequest == [CustomRequest EXCEPT !.customShortCode = Some(Rep("a", 6))]

OtherUrls == { "ftp://bad", "not a url" }
OtherValidities == { Some(Num(0)), Some(Num(-1)), Some(Frac(3, 2)) }
OtherCustomCodes ==
  { Some(<<>>), Some(<<"a","b">>), Some(<<"a","_","c">>), Some(Rep("Z", 21)) }

Requests ==
  { DefaultRequest, CustomRequest, BriefRequest }
    \cup { [CustomRequest EXCEPT !.originalUrl = u] : u \in OtherUrls }
    \cup { [DefaultRequest EXCEPT !.validityMinutes = v] : v \in OtherValidities }
    \cup { [DefaultRequest EXCEPT !.customShortCode = c] : c \in OtherCustomCodes }

(* Outcomes of the Math.random() draws of one generateShortCode attempt:    *)
(* the index Math.floor(Math.random() * chars.length) of each position      *)
RandomDraws == { [i \in 1..SHORTCODE_LENGTH |-> 0], [i \in 1..SHORTCODE_LENGTH |-> 61] }

(* Outcomes of Math.random().toString(36).substr(2, n) *)
RandomTokens == { "k3x9q" }

(* Time-zone names, split at "/" *)
NewYork == << <<"A","m","e","r","i","c","a">>, <<"N","e","w","_","Y","o","r","k">> >>
TimeZones == { NewYork }
UserAgent == "Mozilla/5.0"

SourceInputs == { None, Some("results_page") }
LookupCodes == { <<"a","b","c">>, Rep("a", 6) }

TickSteps == { MsPerMinute }

----------------------------------------------------------------------------
(* Persistence: what JSON.stringify writes and JSON.parse reads back *)

(* The only property of a ShortenedUrl that can be undefined *)
OptionalProperties == { "customShortCode" }

(* A stringify that writes undefined as the text "undefined" *)
JsonObject_UndefinedAsText(obj) ==
  [f \in DOMAIN obj |->
     IF f \in OptionalProperties /\ obj[f] = None THEN Some(<<"undefined">>) ELSE obj[f]]

(* JSON.stringify drops the properties whose value is undefined *)
JsonObject(obj) ==
  [f \in { g \in DOMAIN obj : g \in OptionalProperties => obj[g] # None } |-> obj[f]]

JsonEntries(m) == [i \in 1..Len(m) |-> <<m[i][1], JsonObject(m[i][2])>>]

(* setItem(STORAGE_KEY, JSON.stringify(data)); a throwing setItem is caught *)
(* and logged, and the stored value stays as it was                         *)
SaveToStorage(m, st, t, ok) ==
  IF ok THEN Some([urls |-> JsonEntries(m), lastUpdated |-> ToISOString(t)])
        ELSE st

(* The object JSON.parse builds, as property reads see it: reading a        *)
(* property that the text does not have gives undefined                     *)
ParsedObject(json) ==
  [f \in DOMAIN json \cup OptionalProperties |-> Field(json, f)]

ParsedEntries(es) == [i \in 1..Len(es) |-> <<es[i][1], ParsedObject(es[i][2])>>]

(* A stored value that saveToStorage did not write is described by the     *)
(* kind of value JSON.parse makes of it: "unparsable" when it throws,       *)
(* "null", "number", "array" with its items, "object" with its props        *)
IsSnapshot(st) == IsSome(st) /\ "kind" \notin DOMAIN Val(st)

(* new Map(iterable) on such a value: None when the constructor throws a    *)
(* TypeError (the value is not iterable, or an item is not an object), else *)
(* the map of item[0] to item[1], undefined (None) for a missing item[1]    *)
NewMapOf(value) ==
  IF value.kind # "array" THEN None
  ELSE IF \E i \in 1..Len(value.items) : value.items[i].kind # "array" THEN None
  ELSE Some(MapFromEntries(
         [i \in 1..Len(value.items) |->
            LET item == value.items[i].items
            IN << item[1], IF Len(item) >= 2 THEN item[2] ELSE None >>]))

(* this.urls after the constructor ran on the stored value: the map stays   *)
(* empty when nothing is stored, when JSON.parse, the read of data.urls or  *)
(* new Map throws, and when data.urls is undefined                          *)
LoadFromStorage(st) ==
  IF ~ IsSome(st) THEN <<>>
  ELSE IF IsSnapshot(st) THEN MapFromEntries(ParsedEntries(Val(st).urls))
  ELSE IF Val(st).kind # "object" THEN <<>>
  ELSE IF "urls" \notin DOMAIN Val(st).props THEN <<>>
  ELSE LET loaded == NewMapOf(Val(st).props.urls)
       IN IF IsSome(loaded) THEN Val(loaded) ELSE <<>>

(* The outcomes a setItem call can have in this run *)
WriteOutcomes == IF failuresLeft > 0 THEN BOOLEAN ELSE {TRUE}

----------------------------------------------------------------------------
(* Validation and short-code allocation *)

(* isValidUrl: new URL(url) parses and the protocol is http: or https: *)
IsValidUrl(url) ==
  LET protocol == UrlProtocol(url)
  IN IsSome(protocol) /\ Val(protocol) \in { "http:", "https:" }

(* /^[a-zA-Z0-9]+$/.test(s) *)
IsAlphanumeric(s) ==
  /\ Len(s) >= 1
  /\ \A i \in 1..Len(s) : \E j \in 1..Len(chars) : chars[j] = s[i]

IsValidShortCode(shortCode) ==
  LET isValidLength == Len(shortCode) >= 3 /\ Len(shortCode) <= 20
      isAlphanumeric == IsAlphanumeric(shortCode)
  IN isValidLength /\ isAlphanumeric

(* A uniqueness check that treats the code of an expired record as free *)
IsShortCodeUnique_ReuseExpired(m, shortCode) ==
  ~ (MapHas(m, shortCode) /\ ~ MapGet(m, shortCode).isExpired)

IsShortCodeUnique(m, shortCode) == ~ MapHas(m, shortCode)

(* The string one attempt of generateShortCode builds from its draws *)
DrawnCode(draw) == [i \in 1..SHORTCODE_LENGTH |-> CharAt(draw[i])]

(* generateShortCode: the draws are repeated while the result is a key of   *)
(* the map, so it returns a drawn code that is not a key                    *)
GenerateShortCode(m) == { DrawnCode(d) : d \in RandomDraws } \ MapKeys(m)

(* The draws of one attempt when the loop is followed step by step: the     *)
(* first MaxFreeDraws positions vary, the others repeat the last of them    *)
LoopDraws ==
  { [i \in 1..SHORTCODE_LENGTH |-> IF i <= MaxFreeDraws THEN f[i] ELSE f[MaxFreeDraws]] :
      f \in [1..MaxFreeDraws -> {0, 61}] }

(* The codes that source of draws can produce *)
LoopCodes == { DrawnCode(d) : d \in LoopDraws }

(* A loop that runs its body once, whatever the map holds *)
LoopAgain_Never(m, result) == FALSE

(* while (this.urls.has(result)) *)
LoopAgain(m, result) == MapHas(m, result)

(* request.validityMinutes || DEFAULT_VALIDITY_MINUTES: undefined and 0 are *)
(* falsy                                                                    *)
ResolveValidity(req) ==
  IF IsSome(req.validityMinutes) /\ ~ IsZero(Val(req.validityMinutes))
    THEN Val(req.validityMinutes)
    ELSE Num(DEFAULT_VALIDITY_MINUTES)

(* if (request.customShortCode): undefined and "" are falsy *)
HasCustomCode(req) ==
  IsSome(req.customShortCode) /\ Val(req.customShortCode) # <<>>

(* The checks of createShortenedUrl without the uniqueness check *)
CreateError_NoUniqueness(m, req) ==
  LET validityMinutes == ResolveValidity(req)
  IN IF ~ IsValidUrl(req.originalUrl) THEN Some(ErrInvalidUrl)
     ELSE IF LeqZero(validityMinutes) \/ ~ IsInteger(validityMinutes)
       THEN Some(ErrInvalidValidity)
     ELSE IF HasCustomCode(req) /\ ~ IsValidShortCode(Val(req.customShortCode))
       THEN Some(ErrInvalidShortCode)
     ELSE None

(* The checks of createShortenedUrl in their order: the error of the first  *)
(* check that fails, None when all pass                                     *)
CreateError(m, req) ==
  LET validityMinutes == ResolveValidity(req)
  IN IF ~ IsValidUrl(req.originalUrl) THEN Some(ErrInvalidUrl)
     ELSE IF LeqZero(validityMinutes) \/ ~ IsInteger(validityMinutes)
       THEN Some(ErrInvalidValidity)
     ELSE IF HasCustomCode(req) /\ ~ IsValidShortCode(Val(req.customShortCode))
       THEN Some(ErrInvalidShortCode)
     ELSE IF HasCustomCode(req) /\ ~ IsShortCodeUnique(m, Val(req.customShortCode))
       THEN Some(ErrDuplicateShortCode)
     ELSE None

(* The short codes a passing request can be stored under *)
ShortCodeFor(m, req) ==
  IF HasCustomCode(req) THEN { Val(req.customShortCode) } ELSE GenerateShortCode(m)

(* An expiry computed as now + validityMinutes, without the conversion of   *)
(* minutes to milliseconds                                                  *)
NewShortenedUrl_ExpiresInMs(req, shortCode, t, token) ==
  LET validityMinutes == IntOf(ResolveValidity(req))
  IN [ id |-> [t |-> t, r |-> token],
       originalUrl |-> req.originalUrl,
       shortCode |-> shortCode,
       customShortCode |-> req.customShortCode,
       createdAt |-> ToISOString(t),
       expiresAt |-> ToISOString(t + validityMinutes),
       validityMinutes |-> validityMinutes,
       clicks |-> <<>>,
       isExpired |-> FALSE ]

(* A record whose shortCode is the custom code only, empty when generated *)
NewShortenedUrl_CustomCodeOnly(req, shortCode, t, token) ==
  LET validityMinutes == IntOf(ResolveValidity(req))
      expiresAt == t + validityMinutes * MsPerMinute
  IN [ id |-> [t |-> t, r |-> token],
       originalUrl |-> req.originalUrl,
       shortCode |-> IF HasCustomCode(req) THEN Val(req.customShortCode) ELSE <<>>,
       customShortCode |-> req.customShortCode,
       createdAt |-> ToISOString(t),
       expiresAt |-> ToISOString(expiresAt),
       validityMinutes |-> validityMinutes,
       clicks |-> <<>>,
       isExpired |-> FALSE ]

(* The ShortenedUrl object createShortenedUrl builds at time t *)
NewShortenedUrl(req, shortCode, t, token) ==
  LET validityMinutes == IntOf(ResolveValidity(req))
      expiresAt == t + validityMinutes * MsPerMinute
  IN [ id |-> [t |-> t, r |-> token],
       originalUrl |-> req.originalUrl,
       shortCode |-> shortCode,
       customShortCode |-> req.customShortCode,
       createdAt |-> ToISOString(t),
       expiresAt |-> ToISOString(expiresAt),
       validityMinutes |-> validityMinutes,
       clicks |-> <<>>,
       isExpired |-> FALSE ]

----------------------------------------------------------------------------
(* Lookup, expiry and click recording *)

(* An expiry test that counts the instant expiresAt itself as expired *)
IsExpiredAt_Inclusive(url, t) == DateParse(url.expiresAt) <= t

(* new Date(url.expiresAt) < now, as getShortenedUrl evaluates it *)
IsExpiredAt(url, t) == DateParse(url.expiresAt) < t

(* A getShortenedUrl that deletes the record it finds expired *)
GetShortenedUrlResult_DeleteExpired(m, shortCode, t) ==
  IF ~ MapHas(m, shortCode)
    THEN [url |-> None, urls |-> m, saved |-> FALSE]
    ELSE LET url == MapGet(m, shortCode)
         IN IF DateParse(url.expiresAt) < t /\ ~ url.isExpired
              THEN [url |-> Some([url EXCEPT !.isExpired = TRUE]),
                    urls |-> SelectSeq(m, LAMBDA entry : entry[1] # shortCode),
                    saved |-> TRUE]
              ELSE [url |-> Some(url), urls |-> m, saved |-> FALSE]

(* A getShortenedUrl that saves on every call *)
GetShortenedUrlResult_SaveAlways(m, shortCode, t) ==
  IF ~ MapHas(m, shortCode)
    THEN [url |-> None, urls |-> m, saved |-> TRUE]
    ELSE LET url == MapGet(m, shortCode)
             flipped == [url EXCEPT !.isExpired = @ \/ DateParse(url.expiresAt) < t]
         IN [url |-> Some(flipped), urls |-> MapSet(m, shortCode, flipped),
             saved |-> TRUE]

(* A getShortenedUrl that flips the flag in memory and does not save *)
GetShortenedUrlResult_NoSave(m, shortCode, t) ==
  IF ~ MapHas(m, shortCode)
    THEN [url |-> None, urls |-> m, saved |-> FALSE]
    ELSE LET url == MapGet(m, shortCode)
             flipped == [url EXCEPT !.isExpired = @ \/ DateParse(url.expiresAt) < t]
         IN [url |-> Some(flipped), urls |-> MapSet(m, shortCode, flipped),
             saved |-> FALSE]

(* getShortenedUrl at time t on map m: the returned record (None for null), *)
(* the map afterwards, and whether saveToStorage was called                 *)
GetShortenedUrlResult(m, shortCode, t) ==
  IF ~ MapHas(m, shortCode)
    THEN [url |-> None, urls |-> m, saved |-> FALSE]
    ELSE LET url == MapGet(m, shortCode)
             isExpired == IsExpiredAt(url, t)
         IN IF isExpired /\ ~ url.isExpired
              THEN LET flipped == [url EXCEPT !.isExpired = TRUE]
                   IN [url |-> Some(flipped), urls |-> MapSet(m, shortCode, flipped),
                       saved |-> TRUE]
              ELSE [url |-> Some(url), urls |-> m, saved |-> FALSE]

(* s.replace(from, to) with one-character strings: the first occurrence *)
ReplaceFirst(s, from, to) ==
  IF \E i \in 1..Len(s) : s[i] = from
    THEN LET first == CHOOSE i \in 1..Len(s) :
                        s[i] = from /\ \A j \in 1..(i - 1) : s[j] # from
         IN [s EXCEPT ![first] = to]
    ELSE s

(* getCoarseLocation: the second part of the time-zone name *)
GetCoarseLocation(parts) ==
  IF Len(parts) > 1 THEN ReplaceFirst(parts[2], "_", " ")
  ELSE <<"U","n","k","n","o","w","n">>

GenerateIpHash(token) == [hash |-> token]

(* The ClickData accessShortenedUrl builds; source defaults to 'direct' *)
NewClickData(source, t, parts, token) ==
  [ timestamp |-> ToISOString(t),
    source |-> IF IsSome(source) THEN Val(source) ELSE "direct",
    location |-> GetCoarseLocation(parts),
    userAgent |-> UserAgent,
    ipHash |-> GenerateIpHash(token) ]

(* A click recording that replaces the sequence instead of appending *)
PushClick_Replace(url, clickData) == [url EXCEPT !.clicks = <<clickData>>]

(* url.clicks.push(clickData) *)
PushClick(url, clickData) == [url EXCEPT !.clicks = Append(@, clickData)]

(* new URL(url).origin of the URLs of the model *)
UrlOrigin(url) ==
  CASE url = "https://example.com/x" -> "https://example.com"
    [] url = "http://a.io/y" -> "http://a.io"
    [] OTHER -> "null"

(* A result that carries the origin of the URL instead of the URL *)
AccessSuccess_Origin(url) == [success |-> TRUE, originalUrl |-> UrlOrigin(url.originalUrl)]

(* The result of a successful accessShortenedUrl *)
AccessSuccess(url) == [success |-> TRUE, originalUrl |-> url.originalUrl]

(* A sweep that trusts the cached flag instead of the expiry timestamp *)
CleanupRemoves_FlagOnly(url, t) == url.isExpired

(* new Date(url.expiresAt) < now, as cleanupExpiredUrls evaluates it *)
CleanupRemoves(url, t) == DateParse(url.expiresAt) < t

(* The map after the deleting loop of cleanupExpiredUrls *)
CleanedUrls(m, t) == SelectSeq(m, LAMBDA entry : ~ CleanupRemoves(entry[2], t))

(* A counter that is set when a record is deleted instead of incremented *)
CleanedCount_Flag(m, t) ==
  IF \E i \in 1..Len(m) : CleanupRemoves(m[i][2], t) THEN 1 ELSE 0

(* cleanedCount after the loop: incremented once for every deleted record *)
CleanedCount(m, t) == Len(SelectSeq(m, LAMBDA entry : CleanupRemoves(entry[2], t)))

(* What cleanupExpiredUrls logs: `Cleaned up ${cleanedCount} expired URLs`  *)
(* in context CLEANUP when at least one record was deleted, else nothing    *)
CleanupLog(cleanedCount) ==
  IF cleanedCount > 0
    THEN Some([ message |-> [ text |-> "Cleaned up ${cleanedCount} expired URLs",
                              cleanedCount |-> cleanedCount ],
                context |-> "CLEANUP" ])
    ELSE None

----------------------------------------------------------------------------
(* Listing and statistics *)

(* Array.prototype.sort with a comparator (a, b) => key(b) - key(a), where  *)
(* key[i] is the key of seq[i]: descending, and stable, so elements of      *)
(* equal key keep their order                                               *)
SortDescBy(seq, key) ==
  LET Pos(i) == 1 + Cardinality({ j \in 1..Len(seq) :
                      \/ key[j] > key[i]
                      \/ key[j] = key[i] /\ j < i })
  IN [p \in 1..Len(seq) |-> seq[CHOOSE i \in 1..Len(seq) : Pos(i) = p]]

(* array.slice(0, n) *)
Slice(seq, n) == SubSeq(seq, 1, IF Len(seq) < n THEN Len(seq) ELSE n)

(* A listing in the order of the map, without the sort *)
AllUrls_InsertionOrder(m) == MapValues(m)

(* getAllUrls: the values of the map, newest createdAt first *)
AllUrls(m) ==
  SortDescBy(MapValues(m), [i \in 1..Len(m) |-> DateParse(m[i][2].createdAt)])

(* The reduce of getTopSources / getTopLocations: the properties of the     *)
(* accumulator object, one per distinct key, in the order they were added.  *)
(* The keys of the model are not names of properties that an object         *)
(* inherits (constructor, toString, ...), for which acc[key] || 0 is not 0  *)
RECURSIVE CountEntries(_)
CountEntries(keys) ==
  IF keys = <<>> THEN <<>>
  ELSE LET front == CountEntries(SubSeq(keys, 1, Len(keys) - 1))
           k == keys[Len(keys)]
       IN IF \E i \in 1..Len(front) : front[i].key = k
            THEN LET at == CHOOSE i \in 1..Len(front) : front[i].key = k
                 IN [front EXCEPT ![at].count = @ + 1]
            ELSE Append(front, [key |-> k, count |-> 1])

(* The value of a property key that is an array index ("0", "1", ...,      *)
(* without sign or leading zero), for the strings of the model              *)
ArrayIndex(key) ==
  CASE key = "2" -> Some(2)
    [] key = "10" -> Some(10)
    [] OTHER -> None

(* Entries in the order the properties were added, whatever the keys are *)
ObjectEntries_InsertionOrder(entries) == entries

(* Object.entries(obj): the properties whose key is an array index come     *)
(* first, in ascending numeric order, then the other string keys in the     *)
(* order they were added                                                    *)
ObjectEntries(entries) ==
  LET indexed == SelectSeq(entries, LAMBDA e : IsSome(ArrayIndex(e.key)))
      named == SelectSeq(entries, LAMBDA e : ~ IsSome(ArrayIndex(e.key)))
  IN SortDescBy(indexed, [i \in 1..Len(indexed) |-> - Val(ArrayIndex(indexed[i].key))])
       \o named

TopEntries(keys) ==
  LET entries == ObjectEntries(CountEntries(keys))
  IN Slice(SortDescBy(entries, [i \in 1..Len(entries) |-> entries[i].count]), 5)

GetTopSources(clicks) ==
  LET top == TopEntries([i \in 1..Len(clicks) |-> clicks[i].source])
  IN [i \in 1..Len(top) |-> [source |-> top[i].key, count |-> top[i].count]]

GetTopLocations(clicks) ==
  LET top == TopEntries([i \in 1..Len(clicks) |-> clicks[i].location])
  IN [i \in 1..Len(top) |-> [location |-> top[i].key, count |-> top[i].count]]

(* Offset of local time from UTC in the time zones of the model *)
UtcOffsetMs(parts) == IF parts = NewYork THEN -(5 * 60 * MsPerMinute) ELSE 0
MsPerDay == 24 * 60 * MsPerMinute

(* date.toDateString(): the local calendar day, as its day number *)
ToDateString(ms, parts) == (ms + UtcOffsetMs(parts)) \div MsPerDay

(* The stats object getUrlStats builds for a record at time t *)
UrlStats(url, t, parts) ==
  [ totalClicks |-> Len(url.clicks),
    clicksToday |-> Len(SelectSeq(url.clicks, LAMBDA click :
                      ToDateString(DateParse(click.timestamp), parts)
                        = ToDateString(t, parts))),
    topSources |-> GetTopSources(url.clicks),
    topLocations |-> GetTopLocations(url.clicks),
    clickHistory |-> [i \in 1..Len(url.clicks) |->
                       [ timestamp |-> url.clicks[i].timestamp,
                         source |-> url.clicks[i].source,
                         location |-> url.clicks[i].location ]] ]

----------------------------------------------------------------------------
(* The Analytics page (pages/Analytics.tsx) *)

(* The value of the URL selector that stands for every URL *)
AllSelected == <<"a","l","l">>

(* getFilteredUrls *)
GetFilteredUrls(list, selectedUrl) ==
  IF selectedUrl = AllSelected THEN list
  ELSE SelectSeq(list, LAMBDA url : url.shortCode = selectedUrl)

(* list.flatMap(url => url.clicks) *)
RECURSIVE FlatMapClicks(_)
FlatMapClicks(list) ==
  IF list = <<>> THEN <<>> ELSE Head(list).clicks \o FlatMapClicks(Tail(list))

(* list.flatMap(url => url.clicks.map(click => ({...click, shortCode,       *)
(* originalUrl})))                                                          *)
RECURSIVE FlatMapTaggedClicks(_)
FlatMapTaggedClicks(list) ==
  IF list = <<>> THEN <<>>
  ELSE LET url == Head(list)
       IN [i \in 1..Len(url.clicks) |->
             [ timestamp |-> url.clicks[i].timestamp,
               source |-> url.clicks[i].source,
               location |-> url.clicks[i].location,
               userAgent |-> url.clicks[i].userAgent,
               ipHash |-> url.clicks[i].ipHash,
               shortCode |-> url.shortCode,
               originalUrl |-> url.originalUrl ]]
            \o FlatMapTaggedClicks(Tail(list))

(* Totals that compare the UTC days instead of the local calendar days *)
PageTotalStats_UtcDay(filteredUrls, t, parts) ==
  LET allClicks == FlatMapClicks(filteredUrls)
  IN [ totalClicks |-> Len(allClicks),
       totalUrls |-> Len(filteredUrls),
       activeUrls |-> Len(SelectSeq(filteredUrls, LAMBDA url : ~ url.isExpired)),
       clicksToday |-> Len(SelectSeq(allClicks, LAMBDA click :
                         DateParse(click.timestamp) \div MsPerDay = t \div MsPerDay)) ]

(* getTotalStats at time t in the time zone parts *)
PageTotalStats(filteredUrls, t, parts) ==
  LET allClicks == FlatMapClicks(filteredUrls)
  IN [ totalClicks |-> Len(allClicks),
       totalUrls |-> Len(filteredUrls),
       activeUrls |-> Len(SelectSeq(filteredUrls, LAMBDA url : ~ url.isExpired)),
       clicksToday |-> Len(SelectSeq(allClicks, LAMBDA click :
                         ToDateString(DateParse(click.timestamp), parts)
                           = ToDateString(t, parts))) ]

(* getTopSources and getTopLocations of the page *)
PageTopSources(filteredUrls) ==
  LET allClicks == FlatMapClicks(filteredUrls)
      top == TopEntries([i \in 1..Len(allClicks) |-> allClicks[i].source])
  IN [i \in 1..Len(top) |-> [source |-> top[i].key, count |-> top[i].count]]

PageTopLocations(filteredUrls) ==
  LET allClicks == FlatMapClicks(filteredUrls)
      top == TopEntries([i \in 1..Len(allClicks) |-> allClicks[i].location])
  IN [i \in 1..Len(top) |-> [location |-> top[i].key, count |-> top[i].count]]

(* Recent clicks that are cut to 10 before they are sorted *)
PageRecentClicks_SliceFirst(filteredUrls) ==
  LET firstClicks == Slice(FlatMapTaggedClicks(filteredUrls), 10)
  IN SortDescBy(firstClicks,
       [i \in 1..Len(firstClicks) |-> DateParse(firstClicks[i].timestamp)])

(* getRecentClicks *)
PageRecentClicks(filteredUrls) ==
  LET allClicks == FlatMapTaggedClicks(filteredUrls)
  IN Slice(SortDescBy(allClicks,
             [i \in 1..Len(allClicks) |-> DateParse(allClicks[i].timestamp)]), 10)

(* What the page shows for the listed records and the selection *)
PageView(list, selectedUrl, t, parts) ==
  LET filteredUrls == GetFilteredUrls(list, selectedUrl)
  IN [ stats |-> PageTotalStats(filteredUrls, t, parts),
       topSources |-> PageTopSources(filteredUrls),
       topLocations |-> PageTopLocations(filteredUrls),
       recentClicks |-> PageRecentClicks(filteredUrls) ]

----------------------------------------------------------------------------
(* The logger (utils/logger.ts) *)

maxLogs == 1000

(* createLogEntry.  serial is the place of the entry in the order in which  *)
(* the entries were created since the logs were last emptied: it tells      *)
(* apart entries that are equal in every property                           *)
CreateLogEntry(level, message, context, serial) ==
  [ level |-> level, message |-> message, context |-> context, serial |-> serial ]

(* A logger that keeps the oldest entries at its limit *)
AddLog_KeepOldest(logs, entry) ==
  LET pushed == Append(logs, entry)
  IN IF Len(pushed) > maxLogs THEN SubSeq(pushed, 1, maxLogs) ELSE pushed

(* addLog: push, then logs.slice(-maxLogs) when the limit is exceeded *)
AddLog(logs, entry) ==
  LET pushed == Append(logs, entry)
  IN IF Len(pushed) > maxLogs
       THEN SubSeq(pushed, Len(pushed) - maxLogs + 1, Len(pushed))
       ELSE pushed

(* debug, info, warn and error on the logger lg *)
LoggerAdd(lg, level, message, context) ==
  [ logs |-> AddLog(lg.logs, CreateLogEntry(level, message, context, lg.created + 1)),
    created |-> lg.created + 1 ]

(* The logger after its constructor: this.info('Logger initialized',        *)
(* 'SYSTEM')                                                                *)
NewLogger == LoggerAdd([logs |-> <<>>, created |-> 0], "INFO", "Logger initialized", "SYSTEM")

(* clearLogs: the logs are emptied, then this.info('Logs cleared', 'SYSTEM') *)
ClearedLogger == LoggerAdd([logs |-> <<>>, created |-> 0], "INFO", "Logs cleared", "SYSTEM")

----------------------------------------------------------------------------
(* The form of the UrlShortener page (UrlShortenerForm) *)

(* A new row of the form with the given id *)
NewUrlEntry(id) ==
  [ id |-> id, originalUrl |-> <<>>, validityMinutes |-> <<"3","0">>,
    customShortCode |-> <<>>, useCustomCode |-> FALSE ]

(* The id of the row the form starts with, '1', and the id of an added row, *)
(* Date.now().toString(): a decimal string stands for its number            *)
FirstEntryId == 1
AddedEntryId(t) == t

(* useState initial value *)
NewForm == << NewUrlEntry(FirstEntryId) >>

----------------------------------------------------------------------------
(* The RedirectHandler page (pages/RedirectHandler.tsx) *)

(* The component when it mounts on the route of shortCode: its useState     *)
(* initial values, no timer set, no result of accessShortenedUrl yet, and   *)
(* no assignment to window.location.href (by names the handler that made    *)
(* the last one)                                                            *)
RedirectPage(shortCode) ==
  [ at |-> "redirect", shortCode |-> shortCode,
    isLoading |-> TRUE, error |-> None, countdown |-> 3, originalUrl |-> None,
    timer |-> FALSE, result |-> None, href |-> None, by |-> "none" ]

(* No short link is being visited *)
NoRedirect == [RedirectPage(<<>>) EXCEPT !.at = "none"]

(* handleRedirect after accessShortenedUrl returned result *)
HandleRedirect(r, result) ==
  IF result.success /\ result.originalUrl # ""
    THEN [r EXCEPT !.result = Some(result), !.originalUrl = Some(result.originalUrl),
                   !.isLoading = FALSE]
    ELSE [r EXCEPT !.result = Some(result), !.error = Some(result.error),
                   !.isLoading = FALSE]

(* A countdown effect that navigates one second early *)
CountdownEffect_Early(r) ==
  IF IsSome(r.originalUrl) /\ r.countdown > 1
    THEN [r EXCEPT !.timer = TRUE]
  ELSE IF IsSome(r.originalUrl)
    THEN [r EXCEPT !.href = r.originalUrl, !.by = "countdown"]
  ELSE r

(* The effect on [originalUrl, countdown]: a timer of one second while the  *)
(* countdown is positive, window.location.href = originalUrl at 0           *)
CountdownEffect(r) ==
  IF IsSome(r.originalUrl) /\ r.countdown > 0
    THEN [r EXCEPT !.timer = TRUE]
  ELSE IF IsSome(r.originalUrl) /\ r.countdown = 0
    THEN [r EXCEPT !.href = r.originalUrl, !.by = "countdown"]
  ELSE r

----------------------------------------------------------------------------
(* The state of the user interface *)

Ui == <<logger, form, redirect>>

----------------------------------------------------------------------------
(* The state after the module is loaded with nothing stored *)

(* No call is in progress: the event loop waits for the next event *)
Idle == [op |-> "idle", args |-> <<>>, ret |-> None, writes |-> <<>>]

(* generateShortCode is not running *)
GenIdle == [pc |-> "idle", result |-> <<>>]

InitCommon ==
  /\ now = 0
  /\ ticks = 0
  /\ timeZone \in TimeZones
  /\ storage = None
  /\ urls = LoadFromStorage(storage)
  /\ call = Idle
  /\ gen = GenIdle
  /\ other = <<>>
  /\ page = <<>>
  /\ logger = NewLogger
  /\ form = NewForm
  /\ redirect = NoRedirect

(* localStorage never refuses a write *)
Init == InitCommon /\ failuresLeft = 0

(* localStorage.setItem may throw (quota exceeded, storage disabled) *)
InitFaulty == InitCommon /\ failuresLeft = MaxWriteFailures

(* What no public operation changes between its call and its return: the   *)
(* time zone, the generator, which has returned by then, the map of the     *)
(* service instance of another tab, and the state of the page, of the form  *)
(* and of the logger                                                        *)
Env == <<timeZone, gen, other, page, Ui>>

(* A call made from the event loop returns ret after its setItem calls had  *)
(* the outcomes writes (TRUE: stored, FALSE: threw)                         *)
Returned(op, args, ret, writes) ==
  /\ call = Idle
  /\ call' = [op |-> op, args |-> args, ret |-> ret, writes |-> writes]
  /\ failuresLeft' = failuresLeft - Len(SelectSeq(writes, LAMBDA ok : ~ ok))

(* The same for a call whose only outcome besides its effect is what it     *)
(* logged                                                                   *)
ReturnedLogging(op, args, ret, writes, log) ==
  /\ call = Idle
  /\ call' = [op |-> op, args |-> args, ret |-> ret, writes |-> writes, log |-> log]
  /\ failuresLeft' = failuresLeft - Len(SelectSeq(writes, LAMBDA ok : ~ ok))

----------------------------------------------------------------------------
(* Operations *)

(* The clock advances between two calls *)
Tick(d) ==
  /\ call = Idle
  /\ ticks < MaxTicks
  /\ now' = now + d
  /\ ticks' = ticks + 1
  /\ UNCHANGED <<urls, storage, call, failuresLeft, Env>>

(* The caller has handled the result of its call and returns to the event   *)
(* loop                                                                     *)
Handled ==
  /\ call # Idle
  /\ call' = Idle
  /\ UNCHANGED <<now, ticks, urls, storage, failuresLeft, Env>>

(* The page is loaded again: a new service instance reads the stored value *)
Reload ==
  /\ urls' = LoadFromStorage(storage)
  /\ Returned("constructor", <<>>, None, <<>>)
  /\ UNCHANGED <<now, ticks, storage, Env>>

(* A createShortenedUrl that stores the record before it checks the request *)
CreateShortenedUrl_StoreFirst(req) ==
  LET err == CreateError(urls, req)
      key == IF IsSome(req.customShortCode) THEN Val(req.customShortCode) ELSE <<>>
  IN IF IsSome(err)
       THEN /\ \E token \in RandomTokens :
                 urls' = MapSet(urls, key, NewShortenedUrl(req, key, now, token))
            /\ Returned("createShortenedUrl", <<req>>,
                        [success |-> FALSE, error |-> Val(err)], <<>>)
            /\ UNCHANGED <<now, ticks, storage, Env>>
       ELSE /\ Held(urls) < MaxHeld
            /\ \E shortCode \in ShortCodeFor(urls, req), token \in RandomTokens,
                  ok \in WriteOutcomes :
                 LET shortenedUrl == NewShortenedUrl(req, shortCode, now, token)
                     stored == MapSet(urls, shortCode, shortenedUrl)
                 IN /\ urls' = stored
                    /\ storage' = SaveToStorage(stored, storage, now, ok)
                    /\ Returned("createShortenedUrl", <<req>>,
                                [success |-> TRUE, data |-> shortenedUrl], <<ok>>)
            /\ UNCHANGED <<now, ticks, Env>>

CreateShortenedUrl(req) ==
  LET err == CreateError(urls, req)
  IN IF IsSome(err)
       THEN /\ Returned("createShortenedUrl", <<req>>,
                        [success |-> FALSE, error |-> Val(err)], <<>>)
            /\ UNCHANGED <<now, ticks, urls, storage, Env>>
       ELSE /\ Held(urls) < MaxHeld
            /\ \E shortCode \in ShortCodeFor(urls, req), token \in RandomTokens,
                  ok \in WriteOutcomes :
                 LET shortenedUrl == NewShortenedUrl(req, shortCode, now, token)
                     stored == MapSet(urls, shortCode, shortenedUrl)
                 IN /\ urls' = stored
                    /\ storage' = SaveToStorage(stored, storage, now, ok)
                    /\ Returned("createShortenedUrl", <<req>>,
                                [success |-> TRUE, data |-> shortenedUrl], <<ok>>)
            /\ UNCHANGED <<now, ticks, Env>>

GetShortenedUrl(shortCode) ==
  LET r == GetShortenedUrlResult(urls, shortCode, now)
  IN \E ok \in WriteOutcomes :
       /\ r.saved \/ ok
       /\ urls' = r.urls
       /\ storage' = IF r.saved THEN SaveToStorage(r.urls, storage, now, ok) ELSE storage
       /\ Returned("getShortenedUrl", <<shortCode>>, r.url,
                   IF r.saved THEN <<ok>> ELSE <<>>)
       /\ UNCHANGED <<now, ticks, Env>>

(* accessShortenedUrl when the clock advances by elapsed ms between its two *)
(* readings: new Date() in getShortenedUrl, for the expiry check, and       *)
(* new Date() when the click is built                                       *)
AccessShortenedUrlAt(shortCode, source, elapsed) ==
  LET r == GetShortenedUrlResult(urls, shortCode, now)
  IN IF ~ IsSome(r.url)
       THEN /\ Returned("accessShortenedUrl", <<shortCode, source>>,
                        [success |-> FALSE, error |-> ErrNotFound], <<>>)
            /\ UNCHANGED <<now, ticks, urls, storage, Env>>
     ELSE IF Val(r.url).isExpired
       THEN \E ok \in WriteOutcomes :
              /\ r.saved \/ ok
              /\ urls' = r.urls
              /\ storage' = IF r.saved THEN SaveToStorage(r.urls, storage, now, ok)
                                       ELSE storage
              /\ Returned("accessShortenedUrl", <<shortCode, source>>,
                          [success |-> FALSE, error |-> ErrExpired],
                          IF r.saved THEN <<ok>> ELSE <<>>)
              /\ UNCHANGED <<now, ticks, Env>>
     ELSE /\ Held(urls) < MaxHeld
          /\ \E token \in RandomTokens, ok \in WriteOutcomes :
               LET clickData == NewClickData(source, now + elapsed, timeZone, token)
                   url == PushClick(Val(r.url), clickData)
                   stored == MapSet(r.urls, shortCode, url)
               IN /\ urls' = stored
                  /\ storage' = SaveToStorage(stored, storage, now + elapsed, ok)
                  /\ Returned("accessShortenedUrl", <<shortCode, source>>,
                              AccessSuccess(url), <<ok>>)
          /\ now' = now + elapsed
          /\ UNCHANGED <<ticks, Env>>

(* accessShortenedUrl when the call takes less than a millisecond *)
AccessShortenedUrl(shortCode, source) == AccessShortenedUrlAt(shortCode, source, 0)

GetAllUrls ==
  /\ Returned("getAllUrls", <<>>, AllUrls(urls), <<>>)
  /\ UNCHANGED <<now, ticks, urls, storage, Env>>

GetUrlStats(shortCode) ==
  LET r == GetShortenedUrlResult(urls, shortCode, now)
  IN \E ok \in WriteOutcomes :
       /\ r.saved \/ ok
       /\ urls' = r.urls
       /\ storage' = IF r.saved THEN SaveToStorage(r.urls, storage, now, ok) ELSE storage
       /\ Returned("getUrlStats", <<shortCode>>,
                   IF IsSome(r.url)
                     THEN [success |-> TRUE, stats |-> UrlStats(Val(r.url), now, timeZone)]
                     ELSE [success |-> FALSE, error |-> ErrStatsNotFound],
                   IF r.saved THEN <<ok>> ELSE <<>>)
       /\ UNCHANGED <<now, ticks, Env>>

CleanupExpiredUrls ==
  LET cleaned == CleanedUrls(urls, now)
      cleanedCount == CleanedCount(urls, now)
  IN \E ok \in WriteOutcomes :
       /\ cleanedCount > 0 \/ ok
       /\ urls' = cleaned
       /\ storage' = IF cleanedCount > 0 THEN SaveToStorage(cleaned, storage, now, ok)
                                         ELSE storage
       /\ ReturnedLogging("cleanupExpiredUrls", <<>>, None,
                           IF cleanedCount > 0 THEN <<ok>> ELSE <<>>,
                           CleanupLog(cleanedCount))
       /\ UNCHANGED <<now, ticks, Env>>

Next ==
  \/ \E d \in TickSteps : Tick(d)
  \/ Handled
  \/ Reload
  \/ \E req \in Requests : CreateShortenedUrl(req)
  \/ \E shortCode \in LookupCodes : GetShortenedUrl(shortCode)
  \/ \E shortCode \in LookupCodes, source \in SourceInputs :
       AccessShortenedUrl(shortCode, source)
  \/ GetAllUrls
  \/ \E shortCode \in LookupCodes : GetUrlStats(shortCode)
  \/ CleanupExpiredUrls

Spec == Init /\ [][Next]_vars

SpecFaulty == InitFaulty /\ [][Next]_vars

----------------------------------------------------------------------------
(* generateShortCode, one step per attempt of its do/while loop *)

(* The map of a service in which requests without a custom code were stored *)
(* under the codes of the set codes                                         *)
RECURSIVE MapOfCodes(_)
MapOfCodes(codes) ==
  IF codes = {} THEN <<>>
  ELSE LET shortCode == CHOOSE c \in codes : TRUE
       IN MapSet(MapOfCodes(codes \ {shortCode}), shortCode,
                 NewShortenedUrl(DefaultRequest, shortCode, 0, CHOOSE r \in RandomTokens : TRUE))

(* The maps the loop is followed on: empty, one code taken, one code free,  *)
(* every code taken                                                         *)
GenMaps ==
  { MapOfCodes(codes) :
      codes \in { K \in SUBSET LoopCodes :
                    \/ Cardinality(K) <= 1
                    \/ Cardinality(LoopCodes \ K) <= 1 } }

InitGen ==
  /\ now = 0
  /\ ticks = 0
  /\ timeZone \in TimeZones
  /\ failuresLeft = 0
  /\ urls \in GenMaps
  /\ storage = (IF urls = <<>> THEN None ELSE SaveToStorage(urls, None, now, TRUE))
  /\ call = Idle
  /\ gen = GenIdle
  /\ other = <<>>
  /\ page = <<>>
  /\ logger = NewLogger
  /\ form = NewForm
  /\ redirect = NoRedirect

(* createShortenedUrl calls generateShortCode: result = '' *)
GenStart ==
  /\ gen.pc = "idle"
  /\ gen' = [pc |-> "draw", result |-> <<>>]
  /\ UNCHANGED <<now, ticks, timeZone, failuresLeft, urls, storage, call, other, page, Ui>>

(* The body of the do/while: result is built from SHORTCODE_LENGTH draws *)
GenAttempt(draw) ==
  /\ gen.pc = "draw"
  /\ gen' = [pc |-> "test", result |-> DrawnCode(draw)]
  /\ UNCHANGED <<now, ticks, timeZone, failuresLeft, urls, storage, call, other, page, Ui>>

(* The while condition holds: the body runs again *)
GenRetry ==
  /\ gen.pc = "test"
  /\ LoopAgain(urls, gen.result)
  /\ gen' = [pc |-> "draw", result |-> <<>>]
  /\ UNCHANGED <<now, ticks, timeZone, failuresLeft, urls, storage, call, other, page, Ui>>

(* The while condition fails: return result *)
GenReturn ==
  /\ gen.pc = "test"
  /\ ~ LoopAgain(urls, gen.result)
  /\ gen' = [pc |-> "done", result |-> gen.result]
  /\ UNCHANGED <<now, ticks, timeZone, failuresLeft, urls, storage, call, other, page, Ui>>

NextGen ==
  \/ GenStart
  \/ \E draw \in LoopDraws : GenAttempt(draw)
  \/ GenRetry
  \/ GenReturn

(* The loop keeps running, and the random source is fair: an outcome that   *)
(* can be drawn again and again is drawn                                    *)
SpecGen ==
  /\ InitGen /\ [][NextGen]_vars
  /\ WF_vars(GenStart \/ GenRetry \/ GenReturn)
  /\ \A draw \in LoopDraws : SF_vars(GenAttempt(draw))

----------------------------------------------------------------------------
(* The Analytics page on registries with recorded clicks *)

(* The sources of the clicks: those the pages pass, and strings that are    *)
(* array indices                                                            *)
ClickSources == { "direct", "results_page", "2", "10" }

(* The time zone of the browser at a click, by the source of the click *)
SourceZone(source) ==
  CASE source = "direct" -> NewYork
    [] source = "results_page" -> << <<"A","s","i","a">>, <<"K","o","l","k","a","t","a">> >>
    [] source = "direct_link" -> << <<"E","u","r","o","p","e">>, <<"P","a","r","i","s">> >>
    [] source = "email" -> << <<"A","s","i","a">>, <<"T","o","k","y","o">> >>
    [] source = "qr" -> << <<"A","f","r","i","c","a">>, <<"C","a","i","r","o">> >>
    [] source = "2" -> << <<"U","T","C">> >>
    [] OTHER -> << <<"A","m","e","r","i","c","a">>, <<"S","a","o","_","P","a","u","l","o">> >>

(* The sequences of sources of the clicks of a record: every sequence of up *)
(* to MaxSeqLen sources, and sequences with more than 5 distinct sources    *)
SourceSeqs ==
  UNION { [1..n -> ClickSources] : n \in 0..MaxSeqLen }
    \cup { << "direct", "results_page", "direct_link", "email", "qr", "10", "2" >>,
            << "qr", "email", "email", "direct_link", "results_page", "direct", "other" >> }

(* The time the records of these registries are created at: two minutes    *)
(* before midnight in New York, so that their clicks fall on two calendar   *)
(* days                                                                     *)
StatsEpoch == 5 * 60 * MsPerMinute - 2 * MsPerMinute

(* The record after accesses with the given sources, one a minute from its  *)
(* creation                                                                 *)
RECURSIVE WithClicks(_, _)
WithClicks(url, sources) ==
  IF sources = <<>> THEN url
  ELSE LET front == SubSeq(sources, 1, Len(sources) - 1)
           source == sources[Len(sources)]
       IN PushClick(WithClicks(url, front),
                    NewClickData(Some(source),
                                 DateParse(url.createdAt) + Len(sources) * MsPerMinute,
                                 SourceZone(source), CHOOSE r \in RandomTokens : TRUE))

(* The records under a generated code: one that is valid for 30 minutes,    *)
(* and one that was valid for 3 minutes and is past its expiry when the     *)
(* page is rendered, either never looked up since (flag unset) or looked up *)
(* by getShortenedUrl (flag set)                                            *)
SecondRecords ==
  LET token == CHOOSE r \in RandomTokens : TRUE
      fresh ==
        WithClicks(NewShortenedUrl(DefaultRequest, Rep("a", 6), StatsEpoch, token),
                   << "results_page", "2", "direct", "direct" >>)
      lapsed ==
        WithClicks(NewShortenedUrl([DefaultRequest EXCEPT !.validityMinutes = Some(Num(3))],
                                   Rep("a", 6), StatsEpoch, token),
                   << "results_page", "2" >>)
  IN { fresh, lapsed, [lapsed EXCEPT !.isExpired = TRUE] }

(* The registries: a record under a custom code with the clicks of a source *)
(* sequence, alone or followed by a record under a generated code           *)
StatsMaps ==
  LET token == CHOOSE r \in RandomTokens : TRUE
      first(sources) ==
        WithClicks(NewShortenedUrl([DefaultRequest EXCEPT
                                      !.customShortCode = CustomRequest.customShortCode],
                                   Val(CustomRequest.customShortCode), StatsEpoch, token),
                   sources)
  IN { << <<first(s).shortCode, first(s)>> >> : s \in SourceSeqs }
       \cup { << <<first(s).shortCode, first(s)>>, <<second.shortCode, second>> >> :
                s \in SourceSeqs, second \in SecondRecords }

InitStats ==
  /\ now = StatsEpoch + 8 * MsPerMinute
  /\ ticks = 0
  /\ timeZone \in TimeZones
  /\ failuresLeft = 0
  /\ urls \in StatsMaps
  /\ storage = SaveToStorage(urls, None, now, TRUE)
  /\ call = Idle
  /\ gen = GenIdle
  /\ other = <<>>
  /\ page = <<>>
  /\ logger = NewLogger
  /\ form = NewForm
  /\ redirect = NoRedirect

(* The page loads the list (loadAnalyticsData) and renders it with the      *)
(* selection of the user: every URL, or one of the listed codes             *)
AnalyticsRender(selectedUrl) ==
  LET allUrls == AllUrls(urls)
  IN /\ \/ selectedUrl = AllSelected
        \/ \E i \in 1..Len(allUrls) : allUrls[i].shortCode = selectedUrl
     /\ Returned("Analytics", <<selectedUrl>>,
                 PageView(allUrls, selectedUrl, now, timeZone), <<>>)
     /\ UNCHANGED <<now, ticks, urls, storage, Env>>

NextStats ==
  \/ \E selectedUrl \in {AllSelected} \cup LookupCodes : AnalyticsRender(selectedUrl)
  \/ Handled

SpecStats == InitStats /\ [][NextStats]_vars

----------------------------------------------------------------------------
(* createShortenedUrl on requests that fail several checks at once *)

(* The requests: every combination of the URLs, validities and custom codes *)
(* of Requests                                                              *)
RequestCombos ==
  { [ originalUrl |-> u, validityMinutes |-> v, customShortCode |-> c ] :
      u \in { DefaultRequest.originalUrl, CustomRequest.originalUrl } \cup OtherUrls,
      v \in { None, CustomRequest.validityMinutes } \cup OtherValidities,
      c \in { None, CustomRequest.customShortCode, BriefRequest.customShortCode }
              \cup OtherCustomCodes }

(* The maps the requests are made on: empty, or holding the record of       *)
(* CustomRequest                                                            *)
CreateMaps ==
  LET token == CHOOSE r \in RandomTokens : TRUE
      held == NewShortenedUrl(CustomRequest, Val(CustomRequest.customShortCode), 0, token)
  IN { <<>>, << <<held.shortCode, held>> >> }

InitCreate ==
  /\ now = 0
  /\ ticks = 0
  /\ timeZone \in TimeZones
  /\ failuresLeft = 0
  /\ urls \in CreateMaps
  /\ storage = (IF urls = <<>> THEN None ELSE SaveToStorage(urls, None, now, TRUE))
  /\ call = Idle
  /\ gen = GenIdle
  /\ other = <<>>
  /\ page = <<>>
  /\ logger = NewLogger
  /\ form = NewForm
  /\ redirect = NoRedirect

(* One request is made on each map *)
NextCreate ==
  \/ \E req \in RequestCombos : urls \in CreateMaps /\ CreateShortenedUrl(req)
  \/ Handled

SpecCreate == InitCreate /\ [][NextCreate]_vars

----------------------------------------------------------------------------
(* Two browser tabs: two service instances on the same localStorage key.    *)
(* urls is the map of the instance of the tab in front, other the map of    *)
(* the instance of the tab behind it                                        *)

InitTabs == Init

(* The user brings the other tab to the front: the calls that follow are    *)
(* made on its instance                                                     *)
SwitchTab ==
  /\ call = Idle
  /\ urls' = other
  /\ other' = urls
  /\ UNCHANGED <<now, ticks, timeZone, failuresLeft, storage, call, gen, page, Ui>>

NextTabs ==
  \/ \E d \in TickSteps : Tick(d)
  \/ Handled
  \/ SwitchTab
  \/ Reload
  \/ CreateShortenedUrl(CustomRequest)
  \/ \E source \in SourceInputs :
       AccessShortenedUrl(Val(CustomRequest.customShortCode), source)
  \/ CleanupExpiredUrls

SpecTabs == InitTabs /\ [][NextTabs]_vars

----------------------------------------------------------------------------
(* The UrlShortener page (pages/UrlShortener.tsx) on the service.  The      *)
(* entries of its urls state are objects: an entry is shared when it is the *)
(* very object the map of the service holds under its shortCode, so that    *)
(* what the service changes in that object shows in the page, and a copy    *)
(* when the page built it with a spread                                     *)

(* An entry for an object the service returned *)
SharedEntry(url) == [shared |-> TRUE, url |-> url]

(* The entries after the service changed its map to m: a shared entry shows *)
(* the object as it is now                                                  *)
ShownEntries(entries, m) ==
  [i \in 1..Len(entries) |->
     IF entries[i].shared /\ MapHas(m, entries[i].url.shortCode)
       THEN SharedEntry(MapGet(m, entries[i].url.shortCode))
       ELSE entries[i]]

(* The entries after cleanupExpiredUrls deleted keys from the map: the      *)
(* object of a deleted key is held by the page alone                        *)
DetachedEntries(entries, m) ==
  [i \in 1..Len(entries) |->
     [entries[i] EXCEPT !.shared = @ /\ MapHas(m, entries[i].url.shortCode)]]

(* The click handleUrlClick appends in the state of the page *)
PageClickData(t) ==
  [ timestamp |-> ToISOString(t),
    source |-> "results_page",
    location |-> <<"U","n","k","n","o","w","n">>,
    userAgent |-> UserAgent ]

(* The updater of handleUrlClick: prevUrls.map(url => url.shortCode ===     *)
(* shortCode ? {...url, clicks: [...url.clicks, click]} : url)              *)
ClickedEntries(entries, shortCode, t) ==
  [i \in 1..Len(entries) |->
     IF entries[i].url.shortCode = shortCode
       THEN [ shared |-> FALSE,
              url |-> [entries[i].url EXCEPT !.clicks = Append(@, PageClickData(t))] ]
       ELSE entries[i]]

(* The requests of the form rows of the page, and the batches handleSubmit *)
(* is called with: one row, and two or three rows of which one fails        *)
PageRequests == { CustomRequest, BriefRequest }
RefusedRequest == [CustomRequest EXCEPT !.originalUrl = "ftp://bad"]
PageBatches ==
  { <<req>> : req \in PageRequests }
    \cup { << CustomRequest, BriefRequest >>, << RefusedRequest, CustomRequest >>,
           << CustomRequest, CustomRequest >>,
           << BriefRequest, RefusedRequest, CustomRequest >> }

InitPage == Init

(* The mount effect: loadExistingUrls, then cleanupExpiredUrls *)
Mount ==
  LET existingUrls == AllUrls(urls)
      cleaned == CleanedUrls(urls, now)
      cleanedCount == CleanedCount(urls, now)
  IN \E ok \in WriteOutcomes :
       /\ cleanedCount > 0 \/ ok
       /\ page' = DetachedEntries([i \in 1..Len(existingUrls) |->
                                     SharedEntry(existingUrls[i])], cleaned)
       /\ urls' = cleaned
       /\ storage' = IF cleanedCount > 0 THEN SaveToStorage(cleaned, storage, now, ok)
                                         ELSE storage
       /\ ReturnedLogging("mount", <<>>, None,
                           IF cleanedCount > 0 THEN <<ok>> ELSE <<>>,
                           CleanupLog(cleanedCount))
       /\ UNCHANGED <<now, ticks, timeZone, gen, other, Ui>>

(* A loop that creates nothing when one of the requests fails *)
RECURSIVE BatchOutcomes_AllOrNothing(_, _, _)
BatchOutcomes_AllOrNothing(m, requests, t) ==
  IF requests = <<>> THEN { [urls |-> m, results |-> <<>>, errors |-> <<>>] }
  ELSE LET req == requests[Len(requests)]
           front == SubSeq(requests, 1, Len(requests) - 1)
       IN UNION {
            LET err == CreateError(o.urls, req)
            IN IF IsSome(err)
                 THEN { [urls |-> m, results |-> <<>>,
                         errors |-> Append(o.errors, Val(err))] }
               ELSE IF o.errors # <<>>
                 THEN { o }
               ELSE { LET shortenedUrl ==
                            NewShortenedUrl(req, shortCode, t, token)
                      IN [ urls |-> MapSet(o.urls, shortCode, shortenedUrl),
                           results |-> Append(o.results, shortenedUrl),
                           errors |-> o.errors ] :
                      shortCode \in ShortCodeFor(o.urls, req), token \in RandomTokens }
            : o \in BatchOutcomes_AllOrNothing(m, front, t) }

(* The for loop of handleSubmit on map m at time t: createShortenedUrl is   *)
(* called for each request in turn, its record pushed to results or its     *)
(* error to errors.  The outcomes differ in the codes generateShortCode     *)
(* returns                                                                  *)
RECURSIVE BatchOutcomes(_, _, _)
BatchOutcomes(m, requests, t) ==
  IF requests = <<>> THEN { [urls |-> m, results |-> <<>>, errors |-> <<>>] }
  ELSE LET req == requests[Len(requests)]
           front == SubSeq(requests, 1, Len(requests) - 1)
       IN UNION {
            LET err == CreateError(o.urls, req)
            IN IF IsSome(err)
                 THEN { [o EXCEPT !.errors = Append(@, Val(err))] }
                 ELSE { LET shortenedUrl ==
                              NewShortenedUrl(req, shortCode, t, token)
                        IN [ urls |-> MapSet(o.urls, shortCode, shortenedUrl),
                             results |-> Append(o.results, shortenedUrl),
                             errors |-> o.errors ] :
                        shortCode \in ShortCodeFor(o.urls, req), token \in RandomTokens }
            : o \in BatchOutcomes(m, front, t) }

(* handleSubmit with the requests of the form rows: the created records are *)
(* put in front of the list, in the order of their requests; every created  *)
(* record was saved by createShortenedUrl                                   *)
HandleSubmit(requests) ==
  \E o \in BatchOutcomes(urls, requests, now) :
    /\ Held(o.urls) <= MaxHeld
    /\ urls' = o.urls
    /\ storage' = IF o.results # <<>> THEN SaveToStorage(o.urls, storage, now, TRUE)
                                      ELSE storage
    /\ page' = IF o.results # <<>>
                 THEN [i \in 1..Len(o.results) |-> SharedEntry(o.results[i])] \o page
                 ELSE page
    /\ Returned("handleSubmit", <<requests>>,
                [results |-> o.results, errors |-> o.errors],
                [i \in 1..Len(o.results) |-> TRUE])
    /\ UNCHANGED <<now, ticks, timeZone, gen, other, Ui>>

(* handleUrlClick on a listed link: accessShortenedUrl(shortCode,           *)
(* 'results_page'), and on success the updater of the list                  *)
HandleUrlClick(shortCode) ==
  LET r == GetShortenedUrlResult(urls, shortCode, now)
      source == Some("results_page")
  IN /\ \E i \in 1..Len(page) : page[i].url.shortCode = shortCode
     /\ IF ~ IsSome(r.url)
          THEN /\ Returned("handleUrlClick", <<shortCode>>,
                           [success |-> FALSE, error |-> ErrNotFound], <<>>)
               /\ UNCHANGED <<now, ticks, urls, storage, Env>>
        ELSE IF Val(r.url).isExpired
          THEN \E ok \in WriteOutcomes :
                 /\ r.saved \/ ok
                 /\ urls' = r.urls
                 /\ storage' = IF r.saved THEN SaveToStorage(r.urls, storage, now, ok)
                                          ELSE storage
                 /\ page' = ShownEntries(page, r.urls)
                 /\ Returned("handleUrlClick", <<shortCode>>,
                             [success |-> FALSE, error |-> ErrExpired],
                             IF r.saved THEN <<ok>> ELSE <<>>)
                 /\ UNCHANGED <<now, ticks, timeZone, gen, other, Ui>>
        ELSE /\ Held(urls) < MaxHeld
             /\ \E token \in RandomTokens, ok \in WriteOutcomes :
                  LET clickData == NewClickData(source, now, timeZone, token)
                      url == PushClick(Val(r.url), clickData)
                      stored == MapSet(r.urls, shortCode, url)
                  IN /\ urls' = stored
                     /\ storage' = SaveToStorage(stored, storage, now, ok)
                     /\ page' = ClickedEntries(ShownEntries(page, stored), shortCode, now)
                     /\ Returned("handleUrlClick", <<shortCode>>,
                                 AccessSuccess(url), <<ok>>)
             /\ UNCHANGED <<now, ticks, timeZone, gen, other, Ui>>

NextPage ==
  \/ \E d \in TickSteps : Tick(d)
  \/ Handled
  \/ Mount
  \/ \E requests \in PageBatches : HandleSubmit(requests)
  \/ \E shortCode \in LookupCodes : HandleUrlClick(shortCode)

SpecPage == InitPage /\ [][NextPage]_vars

----------------------------------------------------------------------------
(* The service under a clock read to the millisecond *)

(* The clock advances to the millisecond before a full minute, and by one   *)
(* millisecond                                                              *)
ClockSteps == { MsPerMinute - 1, 1 }

(* The milliseconds that pass between the two clock readings of one         *)
(* accessShortenedUrl call                                                  *)
CallDurations == { 0, 2 }

NextClock ==
  \/ \E d \in ClockSteps : Tick(d)
  \/ Handled
  \/ \E req \in { CustomRequest, BriefRequest } : CreateShortenedUrl(req)
  \/ \E shortCode \in LookupCodes, source \in SourceInputs, elapsed \in CallDurations :
       AccessShortenedUrlAt(shortCode, source, elapsed)

SpecClock == Init /\ [][NextClock]_vars

----------------------------------------------------------------------------
(* The service constructed on stored values it did not write *)

(* The values under STORAGE_KEY: nothing, text that is not JSON, JSON that  *)
(* is not an object with a list of pairs under urls, and a snapshot         *)
StoredValues ==
  LET object(props) == Some([kind |-> "object", props |-> props])
      array(items) == [kind |-> "array", items |-> items]
  IN { None,
       Some([kind |-> "unparsable"]),
       Some([kind |-> "null"]),
       Some([kind |-> "number"]),
       object([lastUpdated |-> ToISOString(0)]),
       object([urls |-> [kind |-> "number"]]),
       object([urls |-> [kind |-> "object", props |-> <<>>]]),
       object([urls |-> array(<< [kind |-> "number"] >>)]),
       object([urls |-> array(<< array(<< <<"a","b","c">> >>), [kind |-> "null"] >>)]),
       object([urls |-> array(<< array(<< <<"a","b","c">> >>) >>)]) }
    \cup { SaveToStorage(m, None, 0, TRUE) : m \in CreateMaps \ { <<>> } }

InitLoad ==
  /\ now = 0
  /\ ticks = 0
  /\ timeZone \in TimeZones
  /\ failuresLeft = 0
  /\ storage \in StoredValues
  /\ urls = LoadFromStorage(storage)
  /\ call = Idle
  /\ gen = GenIdle
  /\ other = <<>>
  /\ page = <<>>
  /\ logger = NewLogger
  /\ form = NewForm
  /\ redirect = NoRedirect

(* Every value of the map is a record: the operations are followed on such  *)
(* maps only                                                                *)
HoldsRecords(m) == \A i \in 1..Len(m) : m[i][2] # None

NextLoad ==
  \/ \E d \in TickSteps : Tick(d)
  \/ Handled
  \/ Reload
  \/ \E req \in { DefaultRequest, CustomRequest } :
       HoldsRecords(urls) /\ CreateShortenedUrl(req)
  \/ \E shortCode \in LookupCodes, source \in SourceInputs :
       HoldsRecords(urls) /\ AccessShortenedUrl(shortCode, source)
  \/ HoldsRecords(urls) /\ CleanupExpiredUrls

SpecLoad == InitLoad /\ [][NextLoad]_vars

----------------------------------------------------------------------------
(* The logger under its callers.  The log calls the service and the pages   *)
(* make are calls of debug, info, warn and error by some caller: the        *)
(* entries are followed here, the operations that made them are not         *)

(* Entries created beyond the limit of the logger that are followed *)
MaxOverflow == 2

NotLogger == <<now, ticks, timeZone, urls, storage, gen, other, page, form, redirect>>

(* The callers fill the logger with info entries and log at every level     *)
(* when the limit is near                                                   *)
LogCall(level) ==
  /\ logger.created < maxLogs + MaxOverflow
  /\ level # "INFO" => Len(logger.logs) >= maxLogs - 1
  /\ logger' = LoggerAdd(logger, level, "message", "CALLER")
  /\ UNCHANGED <<call, failuresLeft, NotLogger>>

Debug == LogCall("DEBUG")
Info == LogCall("INFO")
Warn == LogCall("WARN")
Error == LogCall("ERROR")

(* clearLogs *)
ClearLogs ==
  /\ logger' = ClearedLogger
  /\ Returned("clearLogs", <<>>, None, <<>>)
  /\ UNCHANGED NotLogger

NextLogger ==
  \/ Debug
  \/ Info
  \/ Warn
  \/ Error
  \/ ClearLogs
  \/ Handled

SpecLogger == Init /\ [][NextLogger]_vars

----------------------------------------------------------------------------
(* The form under its user *)

NotForm ==
  <<ticks, timeZone, failuresLeft, urls, storage, call, gen, other, page, logger, redirect>>

(* addUrlEntry *)
AddUrlEntry ==
  /\ form' = IF Len(form) < 5
               THEN Append(form, NewUrlEntry(AddedEntryId(now)))
               ELSE form
  /\ UNCHANGED <<now, NotForm>>

(* removeUrlEntry(id): urls.filter(url => url.id !== id) *)
RemoveUrlEntry(id) ==
  /\ form' = IF Len(form) > 1
               THEN SelectSeq(form, LAMBDA url : url.id # id)
               ELSE form
  /\ UNCHANGED <<now, NotForm>>

(* updateUrlEntry(id, 'useCustomCode', value) *)
UpdateUrlEntry(id, value) ==
  /\ form' = [ i \in 1..Len(form) |->
                 IF form[i].id = id
                   THEN [form[i] EXCEPT !.useCustomCode = value]
                   ELSE form[i] ]
  /\ UNCHANGED <<now, NotForm>>

(* The ids of the rows the form shows *)
FormIds == { form[i].id : i \in 1..Len(form) }

NextForm ==
  \/ AddUrlEntry
  \/ \E id \in FormIds : RemoveUrlEntry(id)
  \/ \E id \in FormIds, value \in BOOLEAN : UpdateUrlEntry(id, value)
  \/ \E d \in TickSteps : Tick(d)

SpecForm == Init /\ [][NextForm]_vars

----------------------------------------------------------------------------
(* The RedirectHandler page under its visitor.  A visit of /:shortCode      *)
(* mounts the component; assigning window.location.href starts a            *)
(* navigation, and the document, with its timers and buttons, lives until   *)
(* the navigation is committed                                              *)

NotRedirect == <<timeZone, gen, other, page, logger, form>>

(* The mount effect, which calls handleRedirect(shortCode), and the         *)
(* countdown effect after it: handleRedirect has no await, so the visit is  *)
(* one step.  The route /:shortCode always has a short code                 *)
Visit(shortCode) ==
  LET r == GetShortenedUrlResult(urls, shortCode, now)
      source == Some("direct_link")
      mounted == RedirectPage(shortCode)
  IN /\ redirect.at # "redirect"
     /\ IF ~ IsSome(r.url)
          THEN LET result == [success |-> FALSE, error |-> ErrNotFound]
               IN /\ redirect' = CountdownEffect(HandleRedirect(mounted, result))
                  /\ Returned("handleRedirect", <<shortCode>>, result, <<>>)
                  /\ UNCHANGED <<now, ticks, urls, storage, NotRedirect>>
        ELSE IF Val(r.url).isExpired
          THEN \E ok \in WriteOutcomes :
                 LET result == [success |-> FALSE, error |-> ErrExpired]
                 IN /\ r.saved \/ ok
                    /\ urls' = r.urls
                    /\ storage' = IF r.saved THEN SaveToStorage(r.urls, storage, now, ok)
                                             ELSE storage
                    /\ redirect' = CountdownEffect(HandleRedirect(mounted, result))
                    /\ Returned("handleRedirect", <<shortCode>>, result,
                                IF r.saved THEN <<ok>> ELSE <<>>)
                    /\ UNCHANGED <<now, ticks, NotRedirect>>
        ELSE /\ Held(urls) < MaxHeld
             /\ \E token \in RandomTokens, ok \in WriteOutcomes :
                  LET clickData == NewClickData(source, now, timeZone, token)
                      url == PushClick(Val(r.url), clickData)
                      stored == MapSet(r.urls, shortCode, url)
                      result == AccessSuccess(url)
                  IN /\ urls' = stored
                     /\ storage' = SaveToStorage(stored, storage, now, ok)
                     /\ redirect' = CountdownEffect(HandleRedirect(mounted, result))
                     /\ Returned("handleRedirect", <<shortCode>>, result, <<ok>>)
             /\ UNCHANGED <<now, ticks, NotRedirect>>

(* The callback of setTimeout: setCountdown(countdown - 1), and the         *)
(* countdown effect of the render that follows                              *)
TimerFires ==
  /\ redirect.at = "redirect"
  /\ redirect.timer
  /\ redirect' = CountdownEffect([redirect EXCEPT !.countdown = @ - 1, !.timer = FALSE])
  /\ UNCHANGED <<now, ticks, failuresLeft, urls, storage, call, NotRedirect>>

(* handleManualRedirect, on the Go Now button of the countdown *)
HandleManualRedirect ==
  /\ redirect.at = "redirect"
  /\ ~ redirect.isLoading /\ ~ IsSome(redirect.error) /\ IsSome(redirect.originalUrl)
  /\ redirect' = IF IsSome(redirect.originalUrl)
                   THEN [redirect EXCEPT !.href = redirect.originalUrl, !.by = "goNow"]
                   ELSE redirect
  /\ UNCHANGED <<now, ticks, failuresLeft, urls, storage, call, NotRedirect>>

(* handleGoHome, on the Go to Homepage button of the error display and on   *)
(* the Cancel button of the countdown                                       *)
HandleGoHome ==
  /\ redirect.at = "redirect"
  /\ ~ redirect.isLoading
  /\ IsSome(redirect.error) \/ IsSome(redirect.originalUrl)
  /\ redirect' = [redirect EXCEPT !.href = Some("/"), !.by = "goHome"]
  /\ UNCHANGED <<now, ticks, failuresLeft, urls, storage, call, NotRedirect>>

(* The browser commits the navigation that the last assignment of           *)
(* window.location.href asked for: the document of the page is gone         *)
Unload ==
  /\ redirect.at = "redirect"
  /\ IsSome(redirect.href)
  /\ redirect' = [redirect EXCEPT !.at = IF redirect.by = "goHome" THEN "home" ELSE "target",
                                  !.timer = FALSE]
  /\ UNCHANGED <<now, ticks, failuresLeft, urls, storage, call, NotRedirect>>

NextRedirect ==
  \/ \E d \in TickSteps : Tick(d)
  \/ Handled
  \/ CreateShortenedUrl(CustomRequest)
  \/ \E shortCode \in LookupCodes : Visit(shortCode)
  \/ TimerFires
  \/ HandleManualRedirect
  \/ HandleGoHome
  \/ Unload

SpecRedirect == Init /\ [][NextRedirect]_vars

(* The timers the page has set fire, and the browser commits the navigation *)
(* it was asked for; what the visitor does is up to the visitor             *)
SpecRedirectFair == SpecRedirect /\ WF_vars(TimerFires) /\ WF_vars(Unload)

----------------------------------------------------------------------------
(* Shape of the state *)

TypeOK ==
  /\ now \in Nat
  /\ ticks \in 0..MaxTicks
  /\ failuresLeft \in 0..MaxWriteFailures
  /\ Held(urls) <= MaxHeld

----------------------------------------------------------------------------
(* Properties *)

(* A step that is a call of operation op *)
Completes(op) == call = Idle /\ call'.op = op

Expiry(url) == DateParse(url.expiresAt)

(* A positive integer number *)
IsPositiveInteger(x) == IsInteger(x) /\ x.n > 0

(* 3 to 20 alphanumeric characters *)
IsWellFormedCode(s) == Len(s) >= 3 /\ Len(s) <= 20 /\ IsAlphanumeric(s)

(* The (shortCode, record) pairs of the map and of the stored snapshot *)
MapPairs(m) == { m[i] : i \in 1..Len(m) }
SnapshotPairs(st) ==
  IF IsSome(st)
    THEN { <<Val(st).urls[i][1], ParsedObject(Val(st).urls[i][2])>> :
             i \in 1..Len(Val(st).urls) }
    ELSE {}

(* C1: no two records held in the registry share a shortCode, and every     *)
(* record is stored under the key equal to its own shortCode                *)
C1_UniqueShortCodes ==
  /\ \A i, j \in 1..Len(urls) :
       urls[i][2].shortCode = urls[j][2].shortCode => i = j
  /\ \A i \in 1..Len(urls) : urls[i][1] = urls[i][2].shortCode

(* Two records are held, one under a custom and one under a generated code, *)
(* the second just created                                                  *)
C1_Witness ==
  /\ Len(urls) = 2
  /\ call.op = "createShortenedUrl" /\ call.ret.success
  /\ \E i, j \in 1..2 : IsSome(Field(urls[i][2], "customShortCode"))
                        /\ ~ IsSome(Field(urls[j][2], "customShortCode"))

(* C2: a create whose customShortCode is a key of the registry fails and    *)
(* leaves map and snapshot untouched, whether or not the record held under  *)
(* the code has expired; with a well-formed URL and validity the error is   *)
(* the duplicate-shortcode error                                            *)
C2_DuplicateRejected ==
  [][ Completes("createShortenedUrl") =>
        LET req == call'.args[1]
        IN (HasCustomCode(req) /\ MapHas(urls, Val(req.customShortCode))) =>
             /\ ~ call'.ret.success
             /\ urls' = urls /\ storage' = storage
             /\ (/\ IsValidUrl(req.originalUrl)
                 /\ \/ req.validityMinutes = None
                    \/ IsPositiveInteger(Val(req.validityMinutes)))
                  => call'.ret.error = ErrDuplicateShortCode ]_vars

(* A create was refused as a duplicate of a record whose expiresAt has      *)
(* passed and whose flag was never flipped                                  *)
C2_Witness ==
  /\ call.op = "createShortenedUrl"
  /\ ~ call.ret.success /\ call.ret.error = ErrDuplicateShortCode
  /\ LET url == MapGet(urls, Val(call.args[1].customShortCode))
     IN Expiry(url) < now /\ ~ url.isExpired

(* C3: for a record of the registry and a time now >= expiresAt, equality   *)
(* included, getShortenedUrl returns the record with isExpired = true and   *)
(* accessShortenedUrl fails with the expired error and records no click     *)
C3_ExpiredFromExpiresAt ==
  [][ \A shortCode \in MapKeys(urls) :
        Expiry(MapGet(urls, shortCode)) <= now =>
          /\ (Completes("getShortenedUrl") /\ call'.args[1] = shortCode)
               => (IsSome(call'.ret) /\ Val(call'.ret).isExpired)
          /\ (Completes("accessShortenedUrl") /\ call'.args[1] = shortCode)
               => /\ ~ call'.ret.success
                  /\ call'.ret.error = ErrExpired
                  /\ MapGet(urls', shortCode).clicks = MapGet(urls, shortCode).clicks
    ]_vars

(* C4: a successful access appends exactly one ClickData, carrying the      *)
(* supplied source ('direct' when none is supplied), to the clicks of the   *)
(* record and changes no other record; a failed access leaves the clicks of *)
(* every record unchanged                                                   *)
C4_AppendOnlyClicks ==
  [][ Completes("accessShortenedUrl") =>
        LET shortCode == call'.args[1]
            source == call'.args[2]
        IN /\ MapKeys(urls') = MapKeys(urls)
           /\ IF call'.ret.success
                THEN /\ MapHas(urls, shortCode)
                     /\ LET old == MapGet(urls, shortCode).clicks
                            new == MapGet(urls', shortCode).clicks
                        IN /\ Len(new) = Len(old) + 1
                           /\ SubSeq(new, 1, Len(old)) = old
                           /\ new[Len(new)].source =
                                (IF IsSome(source) THEN Val(source) ELSE "direct")
                     /\ \A k \in MapKeys(urls) \ {shortCode} :
                          MapGet(urls', k) = MapGet(urls, k)
                ELSE \A k \in MapKeys(urls) :
                       MapGet(urls', k).clicks = MapGet(urls, k).clicks ]_vars

(* A successful access added a second click, with another source than the   *)
(* first, to a record                                                       *)
C4_Witness ==
  /\ call.op = "accessShortenedUrl" /\ call.ret.success
  /\ LET clicks == MapGet(urls, call.args[1]).clicks
     IN Len(clicks) = 2 /\ clicks[1].source # clicks[2].source

(* C5: a record whose isExpired flag is true keeps the flag true through    *)
(* every operation for as long as it stays in the registry                  *)
C5_ExpiryMonotonic ==
  [][ \A k \in MapKeys(urls) :
        (MapGet(urls, k).isExpired /\ MapHas(urls', k))
          => MapGet(urls', k).isExpired ]_vars

(* A record with the flag set is held by a service instance that was        *)
(* constructed from the stored snapshot                                     *)
C5_Witness ==
  /\ call.op = "constructor"
  /\ \E i \in 1..Len(urls) : urls[i][2].isExpired

(* C6: when localStorage accepts the writes, after every operation that     *)
(* changed the map (create, click recording, expiry flip, cleanup that      *)
(* removed a record) the stored snapshot has exactly the pairs of the map   *)
C6_SnapshotInSync ==
  [][ urls' # urls => SnapshotPairs(storage') = MapPairs(urls') ]_vars

(* A cleanup removed a record, kept another one, and saved *)
C6_Witness ==
  /\ call.op = "cleanupExpiredUrls"
  /\ call.writes = <<TRUE>>
  /\ urls # <<>>

(* C7: when a setItem of create or access throws, the map keeps the         *)
(* mutation and the call does not report plain success                      *)
C7_WriteFailureSurfaced ==
  (call.op \in { "createShortenedUrl", "accessShortenedUrl" }
     /\ \E i \in 1..Len(call.writes) : ~ call.writes[i])
    => /\ SnapshotPairs(storage) # MapPairs(urls)
       /\ ~ call.ret.success

(* C8: create uses validityMinutes = 30 when the field is omitted, and for  *)
(* a supplied validityMinutes that is not a positive integer (and a valid   *)
(* URL) fails with the invalid-validity error and creates no record         *)
C8_ValidityChecked ==
  [][ Completes("createShortenedUrl") =>
        LET req == call'.args[1]
            v == req.validityMinutes
        IN IsValidUrl(req.originalUrl) =>
             /\ (v = None /\ call'.ret.success)
                  => call'.ret.data.validityMinutes = 30
             /\ (IsSome(v) /\ ~ IsPositiveInteger(Val(v)))
                  => /\ ~ call'.ret.success
                     /\ call'.ret.error = ErrInvalidValidity
                     /\ urls' = urls ]_vars

(* C9: a create with a supplied customShortCode (of any length from 0) that *)
(* is not 3 to 20 alphanumeric characters (and a valid URL and validity)    *)
(* fails with the invalid-shortcode error and creates no record; every key  *)
(* of the map is 3 to 20 alphanumeric characters                            *)
C9_CustomCodeChecked ==
  [][ /\ \A k \in MapKeys(urls') : IsWellFormedCode(k)
      /\ Completes("createShortenedUrl") =>
           LET req == call'.args[1]
               c == req.customShortCode
               v == req.validityMinutes
           IN (/\ IsValidUrl(req.originalUrl)
               /\ v = None \/ IsPositiveInteger(Val(v))
               /\ IsSome(c) /\ ~ IsWellFormedCode(Val(c)))
                => /\ ~ call'.ret.success
                   /\ call'.ret.error = ErrInvalidShortCode
                   /\ urls' = urls ]_vars

(* C10: a successful create returns a record with isExpired = false, no     *)
(* clicks, the validity of the request (30 when omitted), createdAt = now   *)
(* and expiresAt = createdAt + validityMinutes minutes; the map holds that  *)
(* record under its shortCode, and a getShortenedUrl of the shortCode at    *)
(* that time returns it, with isExpired = false                             *)
C10_CreatedRecord ==
  (call.op = "createShortenedUrl" /\ call.ret.success) =>
    LET req == call.args[1]
        v == req.validityMinutes
        data == call.ret.data
    IN /\ data.isExpired = FALSE
       /\ data.clicks = <<>>
       /\ v = None => data.validityMinutes = 30
       /\ (IsSome(v) /\ IsPositiveInteger(Val(v))) => data.validityMinutes = Val(v).n
       /\ DateParse(data.createdAt) = now
       /\ DateParse(data.expiresAt)
            = DateParse(data.createdAt) + data.validityMinutes * 60 * 1000
       /\ MapHas(urls, data.shortCode)
       /\ MapGet(urls, data.shortCode) = data
       /\ GetShortenedUrlResult(urls, data.shortCode, now).url = Some(data)

(* A record with a supplied validity and custom code was created after the  *)
(* clock had advanced                                                       *)
C10_Witness ==
  /\ call.op = "createShortenedUrl" /\ call.ret.success
  /\ IsSome(call.args[1].validityMinutes)
  /\ IsSome(call.args[1].customShortCode)
  /\ now > 0

(* C11: a successful access returns the originalUrl of the request of the   *)
(* create that stored the record now held under the code: a successful      *)
(* create stores the originalUrl of its request under the code it returns,  *)
(* no later step changes the originalUrl held under a key, and a successful *)
(* access returns the originalUrl held under its code                       *)
C11_ReturnsCreatedUrl ==
  [][ /\ (Completes("createShortenedUrl") /\ call'.ret.success)
           => /\ ~ MapHas(urls, call'.ret.data.shortCode)
              /\ MapGet(urls', call'.ret.data.shortCode).originalUrl
                   = call'.args[1].originalUrl
      /\ \A k \in MapKeys(urls) \cap MapKeys(urls') :
           MapGet(urls', k).originalUrl = MapGet(urls, k).originalUrl
      /\ (Completes("accessShortenedUrl") /\ call'.ret.success)
           => /\ MapHas(urls, call'.args[1])
              /\ call'.ret.originalUrl = MapGet(urls, call'.args[1]).originalUrl
    ]_vars

(* A successful access returned the URL of a record that was created under  *)
(* a generated code after the clock had advanced, the code being one that   *)
(* requests for another URL ask for as their custom code                    *)
C11_Witness ==
  /\ call.op = "accessShortenedUrl" /\ call.ret.success
  /\ call.args[1] = Val(BriefRequest.customShortCode)
  /\ call.ret.originalUrl = DefaultRequest.originalUrl
  /\ call.ret.originalUrl # BriefRequest.originalUrl
  /\ DateParse(MapGet(urls, call.args[1]).createdAt) > 0

(* C12: cleanupExpiredUrls removes exactly the records whose expiresAt is   *)
(* before now, whatever their isExpired flag, leaves every other record as  *)
(* it was, writes the snapshot of the new map when it removed a record, and *)
(* leaves no record whose expiresAt is before now                           *)
C12_CleanupRemovesExpired ==
  [][ Completes("cleanupExpiredUrls") =>
        LET removed == { k \in MapKeys(urls) : Expiry(MapGet(urls, k)) < now }
        IN /\ MapKeys(urls') = MapKeys(urls) \ removed
           /\ \A k \in MapKeys(urls') : MapGet(urls', k) = MapGet(urls, k)
           /\ removed # {} => SnapshotPairs(storage') = MapPairs(urls')
           /\ removed = {} => storage' = storage
           /\ \A k \in MapKeys(urls') : ~ (Expiry(MapGet(urls', k)) < now') ]_vars

(* A cleanup deleted two records, kept a third one and saved *)
C12_Witness ==
  /\ call.op = "cleanupExpiredUrls"
  /\ call.writes = <<TRUE>>
  /\ call.log # None /\ Val(call.log).message.cleanedCount = 2
  /\ Len(urls) = 1
  /\ SnapshotPairs(storage) = MapPairs(urls)

(* C13 as claimed: cleanupExpiredUrls returns to its caller the number of   *)
(* records it removed, 0 when none was expired                              *)
C13_ReturnsCount ==
  [][ Completes("cleanupExpiredUrls") =>
        call'.ret = Some(Len(urls) - Len(urls')) ]_vars

(* C13 as amended: cleanupExpiredUrls returns nothing (undefined); the      *)
(* number of records it removed is only logged, and only when it is not 0   *)
C13_CountOnlyLogged ==
  [][ Completes("cleanupExpiredUrls") =>
        LET removed == Len(urls) - Len(urls')
        IN /\ call'.ret = None
           /\ removed > 0 =>
                /\ call'.log # None
                /\ Val(call'.log).message.cleanedCount = removed
           /\ removed = 0 => call'.log = None ]_vars

(* A cleanup that deleted two records logged the count 2 and returned       *)
(* nothing                                                                  *)
C13_Witness ==
  /\ call.op = "cleanupExpiredUrls"
  /\ call.ret = None
  /\ call.log # None /\ Val(call.log).message.cleanedCount = 2

(* C14: a key leaves the map only in a step of cleanupExpiredUrls; while a  *)
(* record is held its id, originalUrl, shortCode, createdAt,                *)
(* validityMinutes and expiresAt stay as they are; its clicks change only   *)
(* in a successful access of its code, and its isExpired flag only by the   *)
(* expiry flip of a lookup of its code                                      *)
C14_RecordFrame ==
  [][ /\ MapKeys(urls) \ MapKeys(urls') # {} => Completes("cleanupExpiredUrls")
      /\ \A k \in MapKeys(urls) \cap MapKeys(urls') :
           LET old == MapGet(urls, k)
               new == MapGet(urls', k)
           IN /\ new.id = old.id
              /\ new.originalUrl = old.originalUrl
              /\ new.shortCode = old.shortCode
              /\ new.createdAt = old.createdAt
              /\ new.validityMinutes = old.validityMinutes
              /\ new.expiresAt = old.expiresAt
              /\ new.customShortCode = old.customShortCode
              /\ new.clicks # old.clicks =>
                   /\ Completes("accessShortenedUrl")
                   /\ call'.ret.success /\ call'.args[1] = k
              /\ new.isExpired # old.isExpired =>
                   /\ new.isExpired /\ Expiry(old) < now
                   /\ call'.op \in { "getShortenedUrl", "accessShortenedUrl",
                                      "getUrlStats" }
                   /\ call'.args[1] = k ]_vars

(* A record that has a click was flagged expired by a lookup, and is still  *)
(* held                                                                     *)
C14_Witness ==
  /\ call.op \in { "getShortenedUrl", "accessShortenedUrl", "getUrlStats" }
  /\ call.writes = <<TRUE>>
  /\ MapHas(urls, call.args[1])
  /\ MapGet(urls, call.args[1]).isExpired
  /\ MapGet(urls, call.args[1]).clicks # <<>>

(* C15: getAllUrls returns every record of the map exactly once, ordered by *)
(* createdAt descending, and changes neither the map (so no isExpired flag) *)
(* nor the snapshot, also when the expiresAt of a record has passed         *)
C15_ListSortedAndPure ==
  [][ Completes("getAllUrls") =>
        LET list == call'.ret
        IN /\ Len(list) = Len(urls)
           /\ \A i \in 1..Len(urls) :
                Cardinality({ j \in 1..Len(list) : list[j] = urls[i][2] }) = 1
           /\ \A i, j \in 1..Len(list) :
                i < j => DateParse(list[i].createdAt) >= DateParse(list[j].createdAt)
           /\ urls' = urls
           /\ storage' = storage ]_vars

(* getAllUrls listed two records created at different times, the newer      *)
(* first though it is the later entry of the map, while a record whose      *)
(* expiresAt has passed still has its flag unset                            *)
C15_Witness ==
  /\ call.op = "getAllUrls"
  /\ Len(call.ret) >= 2
  /\ DateParse(call.ret[1].createdAt) > DateParse(call.ret[2].createdAt)
  /\ call.ret[1] = urls[Len(urls)][2]
  /\ \E i \in 1..Len(urls) : Expiry(urls[i][2]) < now /\ ~ urls[i][2].isExpired

(* C16: for a code that is not a key of the map, getShortenedUrl returns    *)
(* null and accessShortenedUrl fails with 'Short URL not found.'; neither   *)
(* call changes the map or the snapshot                                     *)
C16_NotFound ==
  [][ (/\ Completes("getShortenedUrl") \/ Completes("accessShortenedUrl")
       /\ ~ MapHas(urls, call'.args[1]))
        => /\ urls' = urls
           /\ storage' = storage
           /\ call'.op = "getShortenedUrl" => call'.ret = None
           /\ call'.op = "accessShortenedUrl" =>
                /\ ~ call'.ret.success
                /\ call'.ret.error = "Short URL not found." ]_vars

(* An access of a code that is not a key failed as not found, while the map *)
(* holds a record under another code and the clock has advanced since the   *)
(* snapshot was written                                                     *)
C16_Witness ==
  /\ call.op = "accessShortenedUrl"
  /\ ~ call.ret.success /\ call.ret.error = ErrNotFound
  /\ ~ MapHas(urls, call.args[1])
  /\ urls # <<>>
  /\ IsSome(storage) /\ DateParse(Val(storage).lastUpdated) < now

(* C17: computing statistics leaves every record, its isExpired flag        *)
(* included, and the snapshot as they are; the aggregations of the          *)
(* Analytics page are operators of the listed records and have no step of   *)
(* their own, so the operation with a step is getUrlStats                   *)
C17_StatsReadOnly ==
  [][ Completes("getUrlStats") => (urls' = urls /\ storage' = storage) ]_vars

(* C18: the map a new service instance loads from the snapshot that         *)
(* saveToStorage writes for a map is that map: the same keys in the same    *)
(* order, the same field values, the same clicks in the same order          *)
C18_RoundTrip ==
  LET loaded == LoadFromStorage(SaveToStorage(urls, storage, now, TRUE))
  IN /\ Len(loaded) = Len(urls)
     /\ \A i \in 1..Len(urls) :
          /\ loaded[i][1] = urls[i][1]
          /\ DOMAIN loaded[i][2] = DOMAIN urls[i][2]
          /\ \A f \in DOMAIN urls[i][2] : loaded[i][2][f] = urls[i][2][f]
     /\ call.op = "constructor" => urls = LoadFromStorage(storage)

(* A new instance loaded two records, one with a customShortCode and one    *)
(* without, and a record with a click                                       *)
C18_Witness ==
  /\ call.op = "constructor"
  /\ Len(urls) = 2
  /\ \E i, j \in 1..2 : /\ IsSome(urls[i][2].customShortCode)
                         /\ ~ IsSome(urls[j][2].customShortCode)
  /\ \E i \in 1..2 : urls[i][2].clicks # <<>>

(* C19: what generateShortCode returns is 6 characters of the 62-character  *)
(* alphabet and not a key of the map, and with a fair random source a call  *)
(* returns whenever some code the source can produce is not a key           *)
C19_GeneratorReturnsFreshCode ==
  /\ [](gen.pc = "done" =>
         /\ Len(gen.result) = 6
         /\ \A i \in 1..Len(gen.result) : \E j \in 1..62 : chars[j] = gen.result[i]
         /\ gen.result \notin MapKeys(urls))
  /\ (gen.pc = "draw" /\ LoopCodes \ MapKeys(urls) # {}) ~> (gen.pc = "done")

(* The generator returned the one code that was not a key *)
C19_Witness ==
  /\ gen.pc = "done"
  /\ Cardinality(LoopCodes \ MapKeys(urls)) = 1
  /\ LoopCodes \ MapKeys(urls) = { gen.result }

(* The position at which k first occurs in a sequence of keys, and how      *)
(* often it occurs                                                          *)
FirstAt(keys, k) == CHOOSE p \in 1..Len(keys) : keys[p] = k /\ \A q \in 1..(p - 1) : keys[q] # k
Occurrences(keys, k) == Cardinality({ p \in 1..Len(keys) : keys[p] = k })

(* A top list (as entries with key and count) is what the claim says of the *)
(* keys of the clicks: at most 5 entries, one per distinct key, with the    *)
(* number of clicks of the key, by count descending, equal counts in the    *)
(* order of first occurrence, and no left-out key ranks before a listed one *)
IsTopOf(top, keys) ==
  LET distinct == { keys[p] : p \in 1..Len(keys) }
      Before(a, b) ==
        \/ Occurrences(keys, a) > Occurrences(keys, b)
        \/ Occurrences(keys, a) = Occurrences(keys, b) /\ FirstAt(keys, a) < FirstAt(keys, b)
  IN /\ Len(top) <= 5
     /\ Len(top) = (IF Cardinality(distinct) < 5 THEN Cardinality(distinct) ELSE 5)
     /\ \A i \in 1..Len(top) :
          top[i].key \in distinct /\ top[i].count = Occurrences(keys, top[i].key)
     /\ \A i, j \in 1..Len(top) : i < j => Before(top[i].key, top[j].key)
     /\ \A k \in distinct \ { top[i].key : i \in 1..Len(top) } :
          \A i \in 1..Len(top) : Before(top[i].key, k)

(* C20: the topSources and topLocations the Analytics page shows are the    *)
(* top lists of the sources and of the locations of the clicks of the       *)
(* selected links                                                           *)
C20_TopSourcesAndLocations ==
  call.op = "Analytics" =>
    LET clicks == FlatMapClicks(GetFilteredUrls(AllUrls(urls), call.args[1]))
        sources == call.ret.topSources
        locations == call.ret.topLocations
    IN /\ IsTopOf([i \in 1..Len(sources) |->
                     [key |-> sources[i].source, count |-> sources[i].count]],
                  [i \in 1..Len(clicks) |-> clicks[i].source])
       /\ IsTopOf([i \in 1..Len(locations) |->
                     [key |-> locations[i].location, count |-> locations[i].count]],
                  [i \in 1..Len(clicks) |-> clicks[i].location])

(* The records the page aggregates for a selection, as indices in the map,  *)
(* and their clicks as (record, click) index pairs                          *)
SelectedRecords(selectedUrl) ==
  { i \in 1..Len(urls) : selectedUrl = AllSelected \/ urls[i][2].shortCode = selectedUrl }
SelectedClicks(selectedUrl) ==
  UNION { { <<i, j>> : j \in 1..Len(urls[i][2].clicks) } :
            i \in SelectedRecords(selectedUrl) }

(* The local calendar day of an instant in New York: midnight is at 05:00   *)
(* UTC                                                                      *)
LocalDay(ms) == (ms - 5 * 60 * MsPerMinute) \div MsPerDay

(* C21: the totals of the Analytics page over the selected links are        *)
(* totalClicks = the sum of the lengths of their clicks, totalUrls = their  *)
(* number, activeUrls = the number of those whose isExpired flag is false,  *)
(* clicksToday = the number of their clicks whose timestamp falls on the    *)
(* current local calendar day; so activeUrls <= totalUrls and               *)
(* clicksToday <= totalClicks                                               *)
C21_Totals ==
  call.op = "Analytics" =>
    LET sel == call.args[1]
        stats == call.ret.stats
    IN /\ stats.totalClicks = Cardinality(SelectedClicks(sel))
       /\ stats.totalUrls = Cardinality(SelectedRecords(sel))
       /\ stats.activeUrls =
            Cardinality({ i \in SelectedRecords(sel) : ~ urls[i][2].isExpired })
       /\ stats.clicksToday =
            Cardinality({ p \in SelectedClicks(sel) :
              LocalDay(DateParse(urls[p[1]][2].clicks[p[2]].timestamp)) = LocalDay(now) })
       /\ stats.activeUrls <= stats.totalUrls
       /\ stats.clicksToday <= stats.totalClicks

(* Totals over two links, one of them flagged expired, with clicks of       *)
(* yesterday and of today                                                   *)
C21_Witness ==
  /\ call.op = "Analytics"
  /\ call.args[1] = AllSelected
  /\ call.ret.stats.totalUrls = 2
  /\ call.ret.stats.activeUrls = 1
  /\ call.ret.stats.clicksToday > 0
  /\ call.ret.stats.clicksToday < call.ret.stats.totalClicks


(* The click at a (record, click) index pair, and whether an entry of the   *)
(* recent clicks is that click tagged with its record                       *)
ClickAt(p) == urls[p[1]][2].clicks[p[2]]
IsTaggedClick(entry, p) ==
  /\ entry.shortCode = urls[p[1]][2].shortCode
  /\ entry.originalUrl = urls[p[1]][2].originalUrl
  /\ entry.timestamp = ClickAt(p).timestamp
  /\ entry.source = ClickAt(p).source
  /\ entry.location = ClickAt(p).location

(* C22: the recent clicks of the Analytics page over the selected links are *)
(* at most 10 clicks, each a click of a selected link tagged with the       *)
(* shortCode and originalUrl of that link and listed once, ordered by       *)
(* timestamp descending, and no click that is left out is newer than a      *)
(* click that is listed                                                     *)
C22_RecentClicks ==
  call.op = "Analytics" =>
    LET recent == call.ret.recentClicks
        clicks == SelectedClicks(call.args[1])
        listed == { p \in clicks : \E k \in 1..Len(recent) : IsTaggedClick(recent[k], p) }
    IN /\ Len(recent) <= 10
       /\ \A k \in 1..Len(recent) : \E p \in clicks : IsTaggedClick(recent[k], p)
       /\ \A k, l \in 1..Len(recent) : recent[k] = recent[l] => k = l
       /\ \A k, l \in 1..Len(recent) :
            k < l => DateParse(recent[k].timestamp) >= DateParse(recent[l].timestamp)
       /\ \A p \in clicks \ listed : \A k \in 1..Len(recent) :
            DateParse(ClickAt(p).timestamp) <= DateParse(recent[k].timestamp)
       /\ clicks # listed => Len(recent) = 10

(* More than 10 clicks over two links: 10 are listed, from both links *)
C22_Witness ==
  /\ call.op = "Analytics"
  /\ Cardinality(SelectedClicks(call.args[1])) > 10
  /\ Len(call.ret.recentClicks) = 10
  /\ \E k, l \in 1..Len(call.ret.recentClicks) :
       call.ret.recentClicks[k].shortCode # call.ret.recentClicks[l].shortCode

(* The first of the checks URL, validity, custom-code format, custom-code   *)
(* uniqueness that a request fails on map m, None when it passes them all:  *)
(* the URL is an http or https URL, a supplied validity is a positive       *)
(* integer, a supplied custom code is 3 to 20 alphanumeric characters and   *)
(* is not a key of the map                                                  *)
FirstFailedCheck(m, req) ==
  IF ~ IsValidUrl(req.originalUrl) THEN Some(ErrInvalidUrl)
  ELSE IF IsSome(req.validityMinutes) /\ ~ IsPositiveInteger(Val(req.validityMinutes))
    THEN Some(ErrInvalidValidity)
  ELSE IF IsSome(req.customShortCode) /\ ~ IsWellFormedCode(Val(req.customShortCode))
    THEN Some(ErrInvalidShortCode)
  ELSE IF IsSome(req.customShortCode) /\ MapHas(m, Val(req.customShortCode))
    THEN Some(ErrDuplicateShortCode)
  ELSE None

(* C23: createShortenedUrl checks URL, validity, custom-code format and     *)
(* custom-code uniqueness in that order, and the error of a failing call is *)
(* the error of the first check the request fails                           *)
C23_FirstFailedCheck ==
  [][ (Completes("createShortenedUrl") /\ ~ call'.ret.success)
        => Some(call'.ret.error) = FirstFailedCheck(urls, call'.args[1]) ]_vars

(* C24: a createShortenedUrl call that returns success = false (invalid     *)
(* URL, invalid validity, invalid or duplicate custom code) leaves the map  *)
(* and the stored snapshot as they were before the call                     *)
C24_FailedCreateChangesNothing ==
  [][ (Completes("createShortenedUrl") /\ ~ call'.ret.success)
        => urls' = urls /\ storage' = storage ]_vars

(* A request is refused by a registry that holds a record and its snapshot *)
C24_Witness ==
  /\ call.op = "createShortenedUrl"
  /\ ~ call.ret.success
  /\ call.ret.error = ErrDuplicateShortCode
  /\ urls # <<>>
  /\ storage # None

(* C25: with two service instances on the same storage key, a click that is *)
(* in the stored snapshot (every click an instance recorded successfully    *)
(* is) is still there after every later step of either instance, until      *)
(* cleanupExpiredUrls removes its expired link                              *)
C25_ClicksSurviveOtherTab ==
  [][ \A before \in SnapshotPairs(storage) :
        \/ \E after \in SnapshotPairs(storage') :
             /\ after[1] = before[1]
             /\ Len(after[2].clicks) >= Len(before[2].clicks)
             /\ SubSeq(after[2].clicks, 1, Len(before[2].clicks)) = before[2].clicks
        \/ /\ Completes("cleanupExpiredUrls")
           /\ Expiry(before[2]) < now ]_vars

(* C26: in the UrlShortener page, the number of clicks the list shows for a *)
(* link equals the length of the clicks of that link in the registry, after *)
(* any sequence of handleUrlClick calls                                     *)
C26_ShownClicksMatchRegistry ==
  \A i \in 1..Len(page) :
    LET shown == page[i].url
    IN (MapHas(urls, shown.shortCode) /\ MapGet(urls, shown.shortCode).id = shown.id)
         => Len(shown.clicks) = Len(MapGet(urls, shown.shortCode).clicks)

(* C27: once the mount effect of the UrlShortener page has run, every link  *)
(* in the list of the page is held by the registry, and a click on a listed *)
(* link never gives the not-found error                                     *)
C27_ListedLinksAreHeld ==
  /\ \A i \in 1..Len(page) : MapHas(urls, page[i].url.shortCode)
  /\ call.op = "handleUrlClick" =>
       (call.ret.success \/ call.ret.error # ErrNotFound)

(* C28: no click is recorded with a timestamp later than the expiresAt of   *)
(* its link, whatever time passes between the expiry check of               *)
(* getShortenedUrl and the timestamp of the click                           *)
C28_NoClickAfterExpiry ==
  \A i \in 1..Len(urls) : \A j \in 1..Len(urls[i][2].clicks) :
    DateParse(urls[i][2].clicks[j].timestamp) <= Expiry(urls[i][2])

(* C29: under a clock that never goes backwards, every record of the        *)
(* registry with isExpired = true has an expiresAt strictly earlier than    *)
(* the current time: the flag is never set on a record that has not reached *)
(* its expiry                                                               *)
C29_FlagOnlyAfterExpiry ==
  \A i \in 1..Len(urls) : urls[i][2].isExpired => Expiry(urls[i][2]) < now

(* A record is flagged, and another one has reached its expiry unflagged *)
C29_Witness ==
  /\ \E i \in 1..Len(urls) : urls[i][2].isExpired
  /\ \E i \in 1..Len(urls) : ~ urls[i][2].isExpired /\ Expiry(urls[i][2]) <= now

(* C30: every link the Analytics page counts in its Active URLs total has   *)
(* an expiresAt that is not earlier than the time the analytics data was    *)
(* loaded: the total counts links with the flag unset (C21), none of which  *)
(* is past its expiry, so it does not exceed the number of selected links   *)
(* that are not past their expiry                                           *)
C30_ActiveUrlsNotExpired ==
  call.op = "Analytics" =>
    LET sel == call.args[1]
    IN /\ \A i \in SelectedRecords(sel) :
            ~ urls[i][2].isExpired => Expiry(urls[i][2]) >= now
       /\ call.ret.stats.activeUrls <=
            Cardinality({ i \in SelectedRecords(sel) : Expiry(urls[i][2]) >= now })

(* C31: handleSubmit processes each request of its batch on its own, in     *)
(* order: every request gives a result or an error, the records added to    *)
(* the registry are the reported results, in order, after the records held  *)
(* before, and they are put in front of the list of the page; a request     *)
(* that fails no check on the registry and asks for a custom code no        *)
(* earlier request of the batch asked for is created, whatever fails before *)
(* or after it                                                              *)
C31_BatchIndependent ==
  [][ Completes("handleSubmit") =>
        LET requests == call'.args[1]
            results == call'.ret.results
            errors == call'.ret.errors
        IN /\ Len(results) + Len(errors) = Len(requests)
           /\ Len(urls') = Len(urls) + Len(results)
           /\ SubSeq(urls', 1, Len(urls)) = urls
           /\ \A j \in 1..Len(results) :
                urls'[Len(urls) + j] = <<results[j].shortCode, results[j]>>
           /\ Len(page') = Len(page) + Len(results)
           /\ \A j \in 1..Len(results) : page'[j].url = results[j]
           /\ SubSeq(page', Len(results) + 1, Len(page')) = page
           /\ \A k \in 1..Len(requests) :
                (/\ FirstFailedCheck(urls, requests[k]) = None
                 /\ \A l \in 1..(k - 1) :
                      requests[l].customShortCode # requests[k].customShortCode)
                  => \E j \in 1..Len(results) :
                       /\ results[j].originalUrl = requests[k].originalUrl
                       /\ results[j].customShortCode = requests[k].customShortCode
           /\ \A k \in 1..Len(requests) :
                FirstFailedCheck(urls, requests[k]) # None
                  => \A j \in 1..Len(results) :
                       results[j].originalUrl # requests[k].originalUrl
                         \/ results[j].customShortCode # requests[k].customShortCode ]_vars

(* A batch of three requests whose second fails: the first and the third    *)
(* are created and listed                                                   *)
C31_Witness ==
  /\ call.op = "handleSubmit"
  /\ Len(call.args[1]) = 3
  /\ Len(call.ret.errors) = 1
  /\ Len(call.ret.results) = 2
  /\ Len(page) >= 2
  /\ page[1].url = call.ret.results[1]
  /\ page[2].url = call.ret.results[2]

(* C32: when the stored value is missing, unparsable or not a list of       *)
(* pairs, the constructed registry is empty, and the first mutation         *)
(* replaces the stored value by a snapshot of the map only: as long as the  *)
(* stored value is not a snapshot the registry is empty, and a stored       *)
(* snapshot holds the pairs of the map and nothing else                     *)
C32_EmptyOnBadSnapshot ==
  /\ ~ IsSnapshot(storage) => urls = <<>>
  /\ IsSnapshot(storage) => SnapshotPairs(storage) = MapPairs(urls)

(* C33: the logger never holds more than 1000 entries: what it holds are    *)
(* the most recently added entries in the order they were added, and right  *)
(* after clearLogs it holds exactly one entry, the 'Logs cleared' info      *)
(* entry of the SYSTEM context                                              *)
IsMostRecent(lg) ==
  /\ Len(lg.logs) <= 1000
  /\ Len(lg.logs) = IF lg.created < 1000 THEN lg.created ELSE 1000
  /\ \A i \in 1..Len(lg.logs) : lg.logs[i].serial = lg.created - Len(lg.logs) + i

C33_LoggerKeepsMostRecent ==
  [][ /\ IsMostRecent(logger')
      /\ Completes("clearLogs") =>
           /\ Len(logger'.logs) = 1
           /\ logger'.logs[1].level = "INFO"
           /\ logger'.logs[1].message = "Logs cleared"
           /\ logger'.logs[1].context = "SYSTEM" ]_vars

C33_Witness ==
  /\ logger.created > 1000
  /\ Len(logger.logs) = 1000
  /\ logger.logs[1000].level = "ERROR"

(* C34: after any sequence of addUrlEntry and removeUrlEntry the form has   *)
(* between 1 and 5 URL entries                                              *)
C34_EntriesBetweenOneAndFive == Len(form) >= 1 /\ Len(form) <= 5

(* C35: in RedirectHandler the browser is sent to the target URL only after *)
(* accessShortenedUrl succeeded for the short code of the route, and only   *)
(* when the countdown has reached 0 or the user pressed Go Now; after a     *)
(* failed access the browser is never sent to a target URL; the countdown   *)
(* takes the values 3, 2, 1, 0 in that order                                *)
SentToTarget(r) == r.by \in {"countdown", "goNow"}

AccessSucceeded(r) == IsSome(r.result) /\ Val(r.result).success

RedirectOk(r) ==
  /\ SentToTarget(r) =>
       /\ AccessSucceeded(r)
       /\ r.href = Some(Val(r.result).originalUrl)
  /\ r.by = "countdown" => r.countdown = 0
  /\ r.at = "target" => SentToTarget(r)
  /\ (IsSome(r.result) /\ ~ Val(r.result).success) =>
       /\ ~ SentToTarget(r)
       /\ r.at # "target"
       /\ IsSome(r.href) => r.href = Some("/")

C35_RedirectOnlyAfterAccess ==
  [][ /\ RedirectOk(redirect')
      /\ Completes("handleRedirect") =>
           /\ call'.args = << redirect'.shortCode >>
           /\ redirect'.result = Some(call'.ret)
           /\ redirect'.countdown = 3
           /\ call'.ret.success =>
                /\ MapHas(urls', redirect'.shortCode)
                /\ LET url == MapGet(urls', redirect'.shortCode)
                   IN /\ url.originalUrl = call'.ret.originalUrl
                      /\ url.clicks[Len(url.clicks)].source = "direct_link"
                      /\ ~ IsExpiredAt(url, now)
      /\ (~ Completes("handleRedirect") /\ redirect'.countdown # redirect.countdown) =>
           /\ redirect'.countdown = redirect.countdown - 1
           /\ redirect'.countdown \in 0..2
           /\ redirect'.shortCode = redirect.shortCode
           /\ AccessSucceeded(redirect) ]_vars

C35_Witness ==
  /\ redirect.at = "target"
  /\ redirect.by = "countdown"
  /\ redirect.countdown = 0
  /\ redirect.href = Some(CustomRequest.originalUrl)

(* C36: every click recorded by the mount-time accessShortenedUrl call of   *)
(* RedirectHandler is eventually followed by the navigation to the          *)
(* originalUrl of the link, when the timers fire                            *)
C36_ClickLeadsToTarget ==
  (redirect.at = "redirect" /\ AccessSucceeded(redirect))
    ~> (redirect.at = "target" /\ redirect.href = redirect.originalUrl)

============================================================================
